---- MODULE Spec2Model ----
(***************************************************************************)
(* A model of the logfmt parser of std-logger (parser/src/lib.rs): the     *)
(* Parser struct, fill_buf, parse_line and Iterator::next, together with   *)
(* the tokenizer functions they call.  Bytes are natural numbers; a Rust   *)
(* slice s[lo..hi] (0-based, hi exclusive) is SubSeq(s, lo + 1, hi).       *)
(* With it: the logfmt writer (src/format/logfmt.rs) and the logger        *)
(* (src/lib.rs): target filtering and the thread-local format buffer.      *)
(***************************************************************************)
EXTENDS Integers, Sequences, FiniteSets, TLC

VARIABLES
    buf,        \* Parser.buf: the bytes held by the Vec
    cap,        \* Parser.buf.capacity()
    parsed,     \* Parser.parsed
    needs_read, \* Parser.needs_read
    hit_eof,    \* Parser.hit_eof
    pc,         \* position of the caller: "idle" between next() calls,
                \* "loop" inside next() after `continue`, "panicked"
    input,      \* the whole byte stream of the source (never changes)
    rest,       \* the bytes the source has not delivered yet
    errs,       \* number of read errors the source has returned
    items,      \* history: every item returned by next(), in order
    starts,     \* history: per item, the stream offset of parsed when its
                \* line was tokenized (after leading blanks were dropped)
    ends,       \* history: per item, the stream offset of parsed on return
    consumed,   \* history: the bytes parsed has moved over, in order
    reads,      \* history: number of reads that delivered bytes
    logger,     \* the installed Logger (filter and targets), if any
    borrowed,   \* the thread-local BUF of log() is mutably borrowed
    frames,     \* the active calls of log() on the thread, innermost last
    written,    \* history: the records written to stdout and stderr
    calls,      \* history: the records passed to the log macros
    thread      \* "running", "panicking" (a panic was raised, the hook is
                \* to run), "unwinding" (the hook was called) or "panicked"
                \* (the panic has left the program)

parservars == <<buf, cap, parsed, needs_read, hit_eof, pc, input, rest, errs,
                items, starts, ends, consumed, reads>>

logvars == <<logger, borrowed, frames, written, calls, thread>>

vars == <<parservars, logvars>>

(***************************************************************************)
(* Bytes the code names.                                                   *)
(***************************************************************************)
NL == 10
TAB == 9
SP == 32
QUOTE == 34
EQ == 61
COLON == 58

(***************************************************************************)
(* Bounds of the model.                                                    *)
(***************************************************************************)
\* Longest input stream drawn in Init.
MaxLen == 3
\* Initial capacity of the buffer (4096 in the code), scaled down.
InitCap == 3
\* Initial capacity in the specification that exercises buffer growth.
GrowCap == 2
\* Read errors the source may inject.
MaxErrs == 1
\* next() may be called again until this many end-of-stream items were seen.
MaxNones == 2
\* Longest body of a quoted value in the specification of quoted values,
\* and the initial capacity there.
MaxBody == 3
QuotedCap == 8
\* Longest value in the specification that exercises buffer growth.
MaxValue == 3
\* Most lines of a stream in the specification of well-formed streams, and
\* the initial capacity there (it holds the longest such stream).
MaxLines == 2
LinesCap == 16
\* Longest stream of blanks.
MaxBlank == 4
\* Initial capacity in the specifications of single fields (it holds the
\* longest stream drawn there).
FieldCap == 80
\* Initial capacity in the specification of written lines.
WrittenCap == 128
\* Most records passed to the log macros in the specification of the logger.
MaxCalls == 2

\* The bytes inputs are drawn from: '\n', ' ', '"', '=', 'a' and the lone
\* continuation byte 0x80 (invalid UTF-8).
Alphabet == {NL, SP, QUOTE, EQ, 97, 128}

(***************************************************************************)
(* Slices and small helpers.                                               *)
(***************************************************************************)
Min(a, b) == IF a <= b THEN a ELSE b

\* s[n..]
Drop(s, n) == SubSeq(s, n + 1, Len(s))

\* s[..n]
Take(s, n) == SubSeq(s, 1, n)

\* Smallest element of a non-empty set of integers.
Least(S) == CHOOSE x \in S : \A y \in S : x <= y

\* Largest element of a non-empty set of integers.
Greatest(S) == CHOOSE x \in S : \A y \in S : x >= y

\* All sequences over S of length at most n.
SeqsUpTo(S, n) == UNION {[1..k -> S] : k \in 0..n}

IsBlank(b) == b = SP \/ b = TAB

\* Number of leading bytes of input that are ' ' or '\t'.
LeadingBlanks(s) ==
    LET stop == {i \in 1..Len(s) : ~IsBlank(s[i])}
    IN IF stop = {} THEN Len(s) ELSE Least(stop) - 1

\* Number of trailing bytes of input that are ' ' or '\t'.
TrailingBlanks(s) ==
    LET stop == {i \in 1..Len(s) : ~IsBlank(s[i])}
    IN IF stop = {} THEN Len(s) ELSE Len(s) - Greatest(stop)

\* fn eat_space
EatSpace(s) == Drop(s, LeadingBlanks(s))

\* fn eat_space_end
EatSpaceEnd(s) == Take(s, Len(s) - TrailingBlanks(s))

\* fn eat_space_both
EatSpaceBoth(s) == EatSpace(EatSpaceEnd(s))

\* Number of '"' among the first n bytes of s.
QuoteCount(s, n) == Cardinality({j \in 1..n : s[j] = QUOTE})

\* fn single_line: the bytes up to the first '\n' that has an even number
\* of '"' before it.
SingleLine(s) ==
    LET brk == {i \in 1..Len(s) : s[i] = NL /\ QuoteCount(s, i - 1) % 2 = 0}
    IN IF brk = {} THEN s ELSE Take(s, Least(brk) - 1)

(***************************************************************************)
(* str::from_utf8: whether a byte sequence is well-formed UTF-8.           *)
(***************************************************************************)
IsCont(b) == b >= 128 /\ b <= 191

RECURSIVE Utf8Valid(_)
Utf8Valid(s) ==
    IF s = <<>> THEN TRUE
    ELSE LET b == s[1]
             n == Len(s)
         IN IF b < 128 THEN Utf8Valid(Drop(s, 1))
            ELSE IF b >= 194 /\ b <= 223
                 THEN n >= 2 /\ IsCont(s[2]) /\ Utf8Valid(Drop(s, 2))
            ELSE IF b >= 224 /\ b <= 239
                 THEN /\ n >= 3
                      /\ IsCont(s[2]) /\ IsCont(s[3])
                      /\ (b = 224 => s[2] >= 160)
                      /\ (b = 237 => s[2] <= 159)
                      /\ Utf8Valid(Drop(s, 3))
            ELSE IF b >= 240 /\ b <= 244
                 THEN /\ n >= 4
                      /\ IsCont(s[2]) /\ IsCont(s[3]) /\ IsCont(s[4])
                      /\ (b = 240 => s[2] >= 144)
                      /\ (b = 244 => s[2] <= 143)
                      /\ Utf8Valid(Drop(s, 4))
            ELSE FALSE

(***************************************************************************)
(* The tokenizer.                                                          *)
(***************************************************************************)
\* fn parse_key.  The result is a panic when the trimmed key is the single
\* byte '"': first() and last() are then the same quote and the slice
\* key_bytes[1..len - 1] is [1..0].
ParseKey(inp) ==
    LET eqs == {i \in 1..Len(inp) : inp[i] = EQ}
        i == IF eqs = {} THEN Len(inp) ELSE Least(eqs) - 1
        key0 == Take(inp, i)
        tail == Drop(inp, i)
        after == IF tail # <<>> THEN Drop(tail, 1) ELSE tail
        key1 == EatSpaceBoth(key0)
        quoted == key1 # <<>> /\ key1[1] = QUOTE /\ key1[Len(key1)] = QUOTE
    IN IF quoted /\ 1 > Len(key1) - 1
       THEN [res |-> "panic", rest |-> after, key |-> <<>>]
       ELSE LET key2 == IF quoted
                        THEN EatSpaceBoth(SubSeq(key1, 2, Len(key1) - 1))
                        ELSE key1
            IN IF Utf8Valid(key2)
               THEN [res |-> "ok", rest |-> after, key |-> key2]
               ELSE [res |-> "KeyInvalidUt8", rest |-> after, key |-> <<>>]

\* fn parse_quoted_value: inp[1] is '"'.
ParseQuotedValue(inp) ==
    LET n == Len(inp)
        \* 0-based index of the first '=' seen with an even quote count,
        \* n when there is none.
        brk == {j \in 2..n : inp[j] = EQ /\ QuoteCount(inp, j - 1) % 2 = 0}
        i0 == IF brk = {} THEN n ELSE Least(brk) - 1
        \* 0-based index of the last '"' in inp[1..i0], 1 when there is none
        \* (i is decremented once per byte of input_value).
        qs == {j \in 2..i0 : inp[j] = QUOTE}
        i == IF qs = {} THEN 1 ELSE Greatest(qs) - 1
    IN [value |-> SubSeq(inp, 2, i),
        rest |-> IF i = n THEN <<>> ELSE Drop(inp, i + 1),
        inbounds |-> 1 <= i /\ i <= n /\ (i # n => i + 1 <= n)]

\* fn parse_naked_value: the value ends at the first ' ' or '\n'.
ParseNakedValue(inp) ==
    LET stop == {i \in 1..Len(inp) : inp[i] = SP \/ inp[i] = NL}
        i == IF stop = {} THEN Len(inp) ELSE Least(stop) - 1
    IN [value |-> Take(inp, i), rest |-> Drop(inp, i), inbounds |-> TRUE]

\* fn parse_value
ParseValue(inp0) ==
    LET inp == EatSpace(inp0)
    IN IF inp # <<>> /\ inp[1] = QUOTE
       THEN ParseQuotedValue(inp)
       ELSE ParseNakedValue(inp)

(***************************************************************************)
(* Numbers.  Integers wider than the model checker's are kept as their     *)
(* canonical decimal digits (no leading zero), which identify the number.  *)
(***************************************************************************)
IsDigit(b) == b >= 48 /\ b <= 57

AllDigits(s) == s # <<>> /\ \A i \in 1..Len(s) : IsDigit(s[i])

\* The digits of s without leading zeros (at least one digit is kept).
Canonical(s) ==
    LET nz == {i \in 1..Len(s) : s[i] # 48}
    IN IF nz = {} THEN <<48>> ELSE Drop(s, Least(nz) - 1)

\* a <= b for canonical digit sequences.
RECURSIVE LexLeq(_, _)
LexLeq(a, b) ==
    IF a = <<>> THEN TRUE
    ELSE IF a[1] # b[1] THEN a[1] < b[1]
    ELSE LexLeq(Drop(a, 1), Drop(b, 1))

DigitsLeq(a, b) == Len(a) < Len(b) \/ (Len(a) = Len(b) /\ LexLeq(a, b))

\* The number a short digit sequence denotes.
RECURSIVE DigitsVal(_)
DigitsVal(s) ==
    IF s = <<>> THEN 0 ELSE 10 * DigitsVal(Take(s, Len(s) - 1)) + (s[Len(s)] - 48)

\* u32::MAX, i64::MAX and -i64::MIN in decimal.
U32MaxDigits == <<52, 50, 57, 52, 57, 54, 55, 50, 57, 53>>
I64MaxDigits == <<57, 50, 50, 51, 51, 55, 50, 48, 51, 54, 56, 53, 52, 55, 55, 53, 56, 48, 55>>
I64MinDigits == <<57, 50, 50, 51, 51, 55, 50, 48, 51, 54, 56, 53, 52, 55, 55, 53, 56, 48, 56>>

\* <signed integer>::from_str: an optional '+' or '-', then digits.
SignedBody(s) == IF s # <<>> /\ (s[1] = 43 \/ s[1] = 45) THEN Drop(s, 1) ELSE s

SignedNeg(s) == s # <<>> /\ s[1] = 45

\* <unsigned integer>::from_str: an optional '+', then digits.
UnsignedBody(s) == IF s # <<>> /\ s[1] = 43 THEN Drop(s, 1) ELSE s

\* str::parse::<i32> of a field of at most four bytes (it cannot overflow).
ParseI32(s) ==
    IF AllDigits(SignedBody(s))
    THEN [ok |-> TRUE,
          val |-> IF SignedNeg(s) THEN 0 - DigitsVal(SignedBody(s))
                  ELSE DigitsVal(SignedBody(s))]
    ELSE [ok |-> FALSE, val |-> 0]

\* str::parse::<u32>: the canonical digits of the number.
ParseU32(s) ==
    IF AllDigits(UnsignedBody(s))
       /\ DigitsLeq(Canonical(UnsignedBody(s)), U32MaxDigits)
    THEN [ok |-> TRUE, digits |-> Canonical(UnsignedBody(s))]
    ELSE [ok |-> FALSE, digits |-> <<>>]

\* str::parse::<i64>
ParseI64(s) ==
    LET body == SignedBody(s)
        neg == SignedNeg(s)
    IN IF AllDigits(body)
          /\ DigitsLeq(Canonical(body), IF neg THEN I64MinDigits ELSE I64MaxDigits)
       THEN [ok |-> TRUE,
             neg |-> neg /\ Canonical(body) # <<48>>,
             digits |-> Canonical(body)]
       ELSE [ok |-> FALSE, neg |-> FALSE, digits |-> <<>>]

\* ASCII lower case of a byte.
Lower(b) == IF b >= 65 /\ b <= 90 THEN b + 32 ELSE b

LowerAll(s) == [i \in 1..Len(s) |-> Lower(s[i])]

\* str::parse::<f64> accepts: an optional sign, then inf, infinity or nan in
\* any case, or digits with an optional '.' and an optional exponent, with
\* at least one digit before the exponent.
IsDecimal(s) ==
    LET es == {i \in 1..Len(s) : s[i] = 101 \/ s[i] = 69}
        mant == IF es = {} THEN s ELSE Take(s, Least(es) - 1)
        expo == IF es = {} THEN <<>> ELSE Drop(s, Least(es))
        dots == {i \in 1..Len(mant) : mant[i] = 46}
        ip == IF dots = {} THEN mant ELSE Take(mant, Least(dots) - 1)
        fp == IF dots = {} THEN <<>> ELSE Drop(mant, Least(dots))
    IN /\ \A i \in 1..Len(ip) : IsDigit(ip[i])
       /\ \A i \in 1..Len(fp) : IsDigit(fp[i])
       /\ Len(ip) + Len(fp) >= 1
       /\ (es # {} => AllDigits(SignedBody(expo)))

IsFloat(s) ==
    LET body == SignedBody(s)
        low == LowerAll(body)
    IN \/ low = <<105, 110, 102>>
       \/ low = <<105, 110, 102, 105, 110, 105, 116, 121>>
       \/ low = <<110, 97, 110>>
       \/ IsDecimal(body)

(***************************************************************************)
(* The field interpreters.                                                 *)
(***************************************************************************)
KeyTs == <<116, 115>>
KeyLvl == <<108, 118, 108>>
KeyMsg == <<109, 115, 103>>
KeyTarget == <<116, 97, 114, 103, 101, 116>>
KeyModule == <<109, 111, 100, 117, 108, 101>>
KeyFile == <<102, 105, 108, 101>>

\* Leap days in the years 1..y of the proleptic Gregorian calendar.
LeapsThrough(y) == (y \div 4) - (y \div 100) + (y \div 400)

IsLeap(y) == (y % 4 = 0 /\ y % 100 # 0) \/ y % 400 = 0

\* Days of a year before its month m (0-based).
DaysBeforeMonth(m, leap) ==
    LET cum == <<0, 31, 59, 90, 120, 151, 181, 212, 243, 273, 304, 334>>
    IN cum[m + 1] + (IF leap /\ m >= 2 THEN 1 ELSE 0)

\* libc::timegm on the tm the code builds: the month is normalised into the
\* year, every other field counts linearly.  The result is kept as whole
\* days since the epoch and the second of that day.
Timegm(year, month, day, hour, min, sec) ==
    LET mon == month - 1
        y == year + (mon \div 12)
        m == mon % 12
        days0 == 365 * (y - 1970) + LeapsThrough(y - 1) - LeapsThrough(1969)
                 + DaysBeforeMonth(m, IsLeap(y)) + (day - 1)
        secs == hour * 3600 + min * 60 + sec
    IN [days |-> days0 + (secs \div 86400), sod |-> secs % 86400]

\* fn parse_timestamp.  `time_offset as u64` turns a negative offset into a
\* number of at least 2^63 seconds, and UNIX_EPOCH + Duration then panics
\* ("overflow when adding duration to instant").
ParseTimestamp(value) ==
    LET bad == [res |-> "InvalidTimestamp", days |-> 0, sod |-> 0, nanos |-> 0]
    IN IF \/ Len(value) # 27
          \/ value[5] # 45 \/ value[8] # 45 \/ value[11] # 84
          \/ value[14] # COLON \/ value[17] # COLON
          \/ value[20] # 46 \/ value[27] # 90
       THEN bad
       ELSE IF ~Utf8Valid(value) THEN bad
       ELSE LET year == ParseI32(SubSeq(value, 1, 4))
                month == ParseI32(SubSeq(value, 6, 7))
                day == ParseI32(SubSeq(value, 9, 10))
                hour == ParseI32(SubSeq(value, 12, 13))
                min == ParseI32(SubSeq(value, 15, 16))
                sec == ParseI32(SubSeq(value, 18, 19))
                nanos == ParseU32(SubSeq(value, 21, 26))
            IN IF ~(year.ok /\ month.ok /\ day.ok /\ hour.ok /\ min.ok
                    /\ sec.ok /\ nanos.ok)
               THEN bad
               ELSE LET t == Timegm(year.val, month.val, day.val,
                                    hour.val, min.val, sec.val)
                    IN IF t.days < 0
                       THEN [res |-> "panic", days |-> 0, sod |-> 0, nanos |-> 0]
                       ELSE [res |-> "ok", days |-> t.days, sod |-> t.sod,
                             nanos |-> DigitsVal(nanos.digits)]

\* A parse_log_level that accepts the upper-case names only.
ParseLogLevelExact(value) ==
    IF value = <<69, 82, 82, 79, 82>> THEN [res |-> "ok", level |-> "Error"]
    ELSE IF value = <<87, 65, 82, 78>> THEN [res |-> "ok", level |-> "Warn"]
    ELSE IF value = <<73, 78, 70, 79>> THEN [res |-> "ok", level |-> "Info"]
    ELSE IF value = <<68, 69, 66, 85, 71>> THEN [res |-> "ok", level |-> "Debug"]
    ELSE IF value = <<84, 82, 65, 67, 69>> THEN [res |-> "ok", level |-> "Trace"]
    ELSE [res |-> "InvalidLevel", level |-> ""]

\* fn parse_log_level: log::Level::from_str compares the names ignoring
\* ASCII case.
ParseLogLevel(value) ==
    LET low == LowerAll(value)
    IN IF ~Utf8Valid(value) THEN [res |-> "InvalidLevel", level |-> ""]
       ELSE IF low = <<101, 114, 114, 111, 114>> THEN [res |-> "ok", level |-> "Error"]
       ELSE IF low = <<119, 97, 114, 110>> THEN [res |-> "ok", level |-> "Warn"]
       ELSE IF low = <<105, 110, 102, 111>> THEN [res |-> "ok", level |-> "Info"]
       ELSE IF low = <<100, 101, 98, 117, 103>> THEN [res |-> "ok", level |-> "Debug"]
       ELSE IF low = <<116, 114, 97, 99, 101>> THEN [res |-> "ok", level |-> "Trace"]
       ELSE [res |-> "InvalidLevel", level |-> ""]

\* A parse_string that takes any bytes (as from_utf8_lossy would).
ParseStringLossy(value) == [res |-> "ok", s |-> value]

\* fn parse_string
ParseString(value) ==
    IF Utf8Valid(value) THEN [res |-> "ok", s |-> value]
    ELSE [res |-> "InvalidValue", s |-> <<>>]

\* A parse_file that splits at the first ':'.
ParseFileFirstColon(value) ==
    LET bad == [res |-> "InvalidFile", file |-> <<>>, line |-> <<>>]
        cs == {i \in 1..Len(value) : value[i] = COLON}
    IN IF ~Utf8Valid(value) \/ cs = {} THEN bad
       ELSE LET c == Least(cs)
                col == ParseU32(Drop(value, c))
            IN IF col.ok
               THEN [res |-> "ok", file |-> Take(value, c - 1), line |-> col.digits]
               ELSE bad

\* fn parse_file: split at the last ':', the suffix is a u32.
ParseFile(value) ==
    LET bad == [res |-> "InvalidFile", file |-> <<>>, line |-> <<>>]
        cs == {i \in 1..Len(value) : value[i] = COLON}
    IN IF ~Utf8Valid(value) \/ cs = {} THEN bad
       ELSE LET c == Greatest(cs)
                col == ParseU32(Drop(value, c))
            IN IF col.ok
               THEN [res |-> "ok", file |-> Take(value, c - 1), line |-> col.digits]
               ELSE bad

\* A from_str that tries f64 before i64.
ValueFromStrFloatFirst(s) ==
    IF s = <<116, 114, 117, 101>>
    THEN [tag |-> "Bool", neg |-> FALSE, v |-> <<1>>]
    ELSE IF s = <<102, 97, 108, 115, 101>>
    THEN [tag |-> "Bool", neg |-> FALSE, v |-> <<0>>]
    ELSE IF IsFloat(s)
    THEN [tag |-> "Float", neg |-> FALSE, v |-> s]
    ELSE IF ParseI64(s).ok
    THEN [tag |-> "Int", neg |-> ParseI64(s).neg, v |-> ParseI64(s).digits]
    ELSE [tag |-> "String", neg |-> FALSE, v |-> s]

\* impl FromStr for Value: bool, then i64, then f64, then the string.  A
\* Float keeps its text.
ValueFromStr(s) ==
    IF s = <<116, 114, 117, 101>>
    THEN [tag |-> "Bool", neg |-> FALSE, v |-> <<1>>]
    ELSE IF s = <<102, 97, 108, 115, 101>>
    THEN [tag |-> "Bool", neg |-> FALSE, v |-> <<0>>]
    ELSE IF ParseI64(s).ok
    THEN [tag |-> "Int", neg |-> ParseI64(s).neg, v |-> ParseI64(s).digits]
    ELSE IF IsFloat(s)
    THEN [tag |-> "Float", neg |-> FALSE, v |-> s]
    ELSE [tag |-> "String", neg |-> FALSE, v |-> s]

\* Record::empty.  An Option is the empty sequence or a sequence of one.
EmptyRecord ==
    [timestamp |-> <<>>, level |-> "Info", msg |-> <<>>, target |-> <<>>,
     module |-> <<>>, file |-> <<>>, key_values |-> <<>>]

\* HashMap::insert: the later value replaces the earlier one.
MapInsert(m, k, v) == [x \in (DOMAIN m) \cup {k} |-> IF x = k THEN v ELSE m[x]]

\* The arms of the match on the key in parse_line, given the result of the
\* field's parse function.
SetTimestamp(record, t) ==
    [res |-> t.res,
     record |-> IF t.res = "ok"
                THEN [record EXCEPT !.timestamp =
                         <<[days |-> t.days, sod |-> t.sod, nanos |-> t.nanos]>>]
                ELSE record]

SetLevel(record, l) ==
    [res |-> l.res,
     record |-> IF l.res = "ok" THEN [record EXCEPT !.level = l.level] ELSE record]

SetMsg(record, m) == [res |-> m.res, record |-> [record EXCEPT !.msg = m.s]]

SetTarget(record, m) == [res |-> m.res, record |-> [record EXCEPT !.target = m.s]]

\* A module arm that assigns the empty value too.
SetModuleAlways(record, m) ==
    [res |-> m.res, record |-> [record EXCEPT !.module = <<m.s>>]]

SetModule(record, m) ==
    [res |-> m.res,
     record |-> IF m.s # <<>> THEN [record EXCEPT !.module = <<m.s>>] ELSE record]

SetFile(record, f) ==
    [res |-> f.res,
     record |-> IF f.res = "ok"
                THEN [record EXCEPT !.file = <<[path |-> f.file, line |-> f.line]>>]
                ELSE record]

SetKeyValue(record, key, m) ==
    [res |-> m.res,
     record |-> IF m.res = "ok"
                THEN [record EXCEPT !.key_values = MapInsert(@, key, ValueFromStr(m.s))]
                ELSE record]

\* The match on the key in parse_line: the record with the field set, or
\* the kind of the error, or a panic.
Interpret(record, key, value) ==
    IF key = KeyTs THEN SetTimestamp(record, ParseTimestamp(value))
    ELSE IF key = KeyLvl THEN SetLevel(record, ParseLogLevel(value))
    ELSE IF key = KeyMsg THEN SetMsg(record, ParseString(value))
    ELSE IF key = KeyTarget THEN SetTarget(record, ParseString(value))
    ELSE IF key = KeyModule THEN SetModule(record, ParseString(value))
    ELSE IF key = KeyFile THEN SetFile(record, ParseFile(value))
    ELSE SetKeyValue(record, key, ParseString(value))

(***************************************************************************)
(* The parser.  p is the Parser struct without its reader:                 *)
(* [buf, cap, parsed, needs_read, hit_eof].                                *)
(***************************************************************************)
\* Parser::remove_spaces
RemoveSpaces(p) ==
    [p EXCEPT !.parsed = @ + LeadingBlanks(Drop(p.buf, p.parsed))]

\* A drain that removes one byte too many.
DrainOneMore(p) == Drop(p.buf, RemoveSpaces(p).parsed + 1)

\* fill_buf: buf.drain(..parsed) after remove_spaces.
Drain(p) == Drop(p.buf, RemoveSpaces(p).parsed)

\* A fill_buf that never reserves more capacity.
GrownCapNever(capacity, len) == capacity

\* fill_buf: the capacity is doubled when the buffer is full.
GrownCap(capacity, len) == IF len = capacity THEN capacity + capacity ELSE capacity

\* A read that leaves the resized tail in the buffer when it fails.
ReadIntoKeepTail(bytes, capacity, rd) ==
    Take([i \in 1..capacity |->
             IF i <= Len(bytes) THEN bytes[i]
             ELSE IF i <= Len(bytes) + Len(rd.data) THEN rd.data[i - Len(bytes)]
             ELSE 0],
         IF rd.ok THEN Len(bytes) + Len(rd.data) ELSE capacity)

\* fill_buf: resize to the capacity, read into the tail, truncate.  rd is
\* the result of the read: [ok |-> TRUE, data |-> the bytes read] or
\* [ok |-> FALSE, data |-> <<>>].
ReadInto(bytes, capacity, rd) ==
    Take([i \in 1..capacity |->
             IF i <= Len(bytes) THEN bytes[i]
             ELSE IF i <= Len(bytes) + Len(rd.data) THEN rd.data[i - Len(bytes)]
             ELSE 0],
         IF rd.ok THEN Len(bytes) + Len(rd.data) ELSE Len(bytes))

\* A fill_buf that drains the buffer and leaves parsed where it was.
FillDrainedKeepParsed(p, drained, rd) ==
    [p EXCEPT !.buf = ReadInto(drained, GrownCap(p.cap, Len(drained)), rd),
              !.cap = GrownCap(p.cap, Len(drained)),
              !.hit_eof = @ \/ (rd.ok /\ rd.data = <<>>)]

\* A fill_buf that takes a failed read for the end of the stream.
FillDrainedEofOnErr(p, drained, rd) ==
    [p EXCEPT !.buf = ReadInto(drained, GrownCap(p.cap, Len(drained)), rd),
              !.parsed = 0,
              !.cap = GrownCap(p.cap, Len(drained)),
              !.hit_eof = @ \/ rd.data = <<>>]

\* fill_buf on the drained buffer.
FillDrained(p, drained, rd) ==
    [p EXCEPT !.buf = ReadInto(drained, GrownCap(p.cap, Len(drained)), rd),
              !.parsed = 0,
              !.cap = GrownCap(p.cap, Len(drained)),
              !.hit_eof = @ \/ (rd.ok /\ rd.data = <<>>)]

\* Parser::fill_buf with the result rd of the one read it issues.
FillBuf(p, rd) == FillDrained(p, Drain(p), rd)

\* The length of the slice fill_buf hands to the reader.
ReadRoom(p) == GrownCap(p.cap, Len(Drain(p))) - Len(Drain(p))

\* What parse_line returns, with the value it leaves in self.parsed.
LineResult(res, newParsed, record, kind, line) ==
    [res |-> res, parsed |-> newParsed, record |-> record, kind |-> kind,
     line |-> line]

\* Parser::create_line_error: the line captured for an error.
CreateLineError(p) == SingleLine(Drop(p.buf, p.parsed))

RECURSIVE ParseLoop(_, _, _, _)

\* A parse_line that goes on to the next pair when a field fails.
AfterFieldIgnoring(p, rst, f) ==
    IF f.res = "panic" THEN LineResult("panic", p.parsed, f.record, "", <<>>)
    ELSE ParseLoop(p, rst, f.record, FALSE)

\* parse_line after a key/value pair was interpreted with result f.
AfterField(p, rst, f) ==
    IF f.res = "panic" THEN LineResult("panic", p.parsed, f.record, "", <<>>)
    ELSE IF f.res # "ok"
    THEN LineResult("err", p.parsed, f.record, f.res, CreateLineError(p))
    ELSE ParseLoop(p, rst, f.record, FALSE)

\* parse_line after parse_value returned v for the key.
AfterValue(p, key, v, record) ==
    IF ~v.inbounds THEN LineResult("panic", p.parsed, record, "", <<>>)
    ELSE IF v.rest = <<>> /\ ~p.hit_eof
    THEN LineResult("none", p.parsed, record, "", <<>>)
    ELSE AfterField(p, v.rest, Interpret(record, key, v.value))

\* A parse_line that marks the window as parsed when the key is incomplete.
AfterKeyConsuming(p, k, record) ==
    IF k.res = "panic" THEN LineResult("panic", p.parsed, record, "", <<>>)
    ELSE IF k.res # "ok"
    THEN LineResult("err", p.parsed, record, k.res, CreateLineError(p))
    ELSE IF k.rest = <<>> THEN LineResult("none", Len(p.buf), record, "", <<>>)
    ELSE AfterValue(p, k.key, ParseValue(k.rest), record)

\* parse_line after parse_key returned k.
AfterKey(p, k, record) ==
    IF k.res = "panic" THEN LineResult("panic", p.parsed, record, "", <<>>)
    ELSE IF k.res # "ok"
    THEN LineResult("err", p.parsed, record, k.res, CreateLineError(p))
    ELSE IF k.rest = <<>> THEN LineResult("none", p.parsed, record, "", <<>>)
    ELSE AfterValue(p, k.key, ParseValue(k.rest), record)

\* The loop of parse_line after eat_space; p.parsed is the start of the line.
LoopBody(p, inp, record, isEmpty) ==
    IF inp = <<>> \/ inp[1] = NL
    THEN LineResult(IF isEmpty THEN "none" ELSE "some",
                    (Len(p.buf) - Len(inp)) + (IF inp = <<>> THEN 0 ELSE 1),
                    record, "", <<>>)
    ELSE AfterKey(p, ParseKey(inp), record)

\* The loop of parse_line.
ParseLoop(p, inp, record, isEmpty) == LoopBody(p, EatSpace(inp), record, isEmpty)

\* A parse_line that starts with record_is_empty = false.
ParseFromNonEmpty(p) == ParseLoop(p, Drop(p.buf, p.parsed), EmptyRecord, FALSE)

\* parse_line after its remove_spaces.
ParseFrom(p) == ParseLoop(p, Drop(p.buf, p.parsed), EmptyRecord, TRUE)

\* Parser::parse_line
ParseLine(p) == ParseFrom(RemoveSpaces(p))

\* The items next() returns.
RecordItem(record) ==
    [type |-> "record", record |-> record, kind |-> "", line |-> <<>>]

\* An error item that drops the line.
ErrorItemNoLine(kind, line) ==
    [type |-> "error", record |-> EmptyRecord, kind |-> kind, line |-> <<>>]

ErrorItem(kind, line) ==
    [type |-> "error", record |-> EmptyRecord, kind |-> kind, line |-> line]

NoneItem == [type |-> "none", record |-> EmptyRecord, kind |-> "", line |-> <<>>]

\* next(): `self.parsed += line.len()` and the skip of the next new line.
SkipLine(b, at) ==
    IF at + 1 <= Len(b) /\ b[at + 1] = NL THEN at + 1 ELSE at

\* next(): the match on the result r of parse_line.  out is "item" (next
\* returns item), "continue" (the loop goes round) or "panic".
Dispatch(p, r) ==
    IF r.res = "panic"
    THEN [p |-> [p EXCEPT !.parsed = r.parsed], out |-> "panic", item |-> NoneItem]
    ELSE IF r.res = "some"
    THEN [p |-> [p EXCEPT !.parsed = r.parsed], out |-> "item",
          item |-> RecordItem(r.record)]
    ELSE IF r.res = "none" /\ p.hit_eof
    THEN [p |-> [p EXCEPT !.parsed = r.parsed], out |-> "item", item |-> NoneItem]
    ELSE IF r.res = "none"
    THEN [p |-> [p EXCEPT !.parsed = r.parsed, !.needs_read = TRUE],
          out |-> "continue", item |-> NoneItem]
    ELSE [p |-> [p EXCEPT !.parsed = SkipLine(p.buf, r.parsed + Len(r.line))],
          out |-> "item", item |-> ErrorItem(r.kind, <<r.line>>)]

\* next(): parse_line and the match on its result.
ParseAndDispatch(p) == Dispatch(p, ParseLine(p))

\* One iteration of the loop of Iterator::next, given the result rd of the
\* read it issues when needs_read holds.
NextIter(p, rd) ==
    IF p.needs_read /\ ~rd.ok
    THEN [p |-> FillBuf(p, rd), out |-> "item", item |-> ErrorItem("Io", <<>>)]
    ELSE ParseAndDispatch(IF p.needs_read THEN FillBuf(p, rd) ELSE p)

(***************************************************************************)
(* The state machine: a caller that keeps calling next() on a parser whose *)
(* source delivers `input` in reads of any size, and may fail a read.      *)
(***************************************************************************)
Self ==
    [buf |-> buf, cap |-> cap, parsed |-> parsed, needs_read |-> needs_read,
     hit_eof |-> hit_eof]

\* Number of end-of-stream items returned so far.
Nones == Cardinality({i \in 1..Len(items) : items[i].type = "none"})

\* The loop of next() can run: inside a call, or the caller calls again.
CanStep == pc = "loop" \/ (pc = "idle" /\ Nones < MaxNones)

\* fn parse: the parser as constructed, on a source holding inp.
NewParser(capacity) ==
    [buf |-> <<>>, cap |-> capacity, parsed |-> 0, needs_read |-> TRUE,
     hit_eof |-> FALSE]

\* The logger before Config::init: nothing is installed or borrowed.
NoLogger ==
    /\ logger = [installed |-> FALSE, filter |-> 0, targets |-> [all |-> TRUE, only |-> <<>>]]
    /\ borrowed = FALSE
    /\ frames = <<>>
    /\ written = <<>>
    /\ calls = <<>>
    /\ thread = "running"

InitWith(inp, capacity) ==
    /\ buf = NewParser(capacity).buf
    /\ cap = NewParser(capacity).cap
    /\ parsed = NewParser(capacity).parsed
    /\ needs_read = NewParser(capacity).needs_read
    /\ hit_eof = NewParser(capacity).hit_eof
    /\ pc = "idle"
    /\ input = inp
    /\ rest = inp
    /\ errs = 0
    /\ items = <<>>
    /\ starts = <<>>
    /\ ends = <<>>
    /\ consumed = <<>>
    /\ reads = 0
    /\ NoLogger

Init == \E inp \in SeqsUpTo(Alphabet, MaxLen) : InitWith(inp, InitCap)

\* The history one iteration leaves: pF is the parser after fill_buf (the
\* parser itself when no read was needed), r the result of the iteration,
\* d1 the blanks fill_buf moved parsed over.
Record(pF, r, d1) ==
    /\ buf' = r.p.buf
    /\ cap' = r.p.cap
    /\ parsed' = r.p.parsed
    /\ needs_read' = r.p.needs_read
    /\ hit_eof' = r.p.hit_eof
    /\ consumed' = consumed \o d1 \o SubSeq(pF.buf, pF.parsed + 1, r.p.parsed)
    /\ pc' = IF r.out = "panic" THEN "panicked"
             ELSE IF r.out = "continue" THEN "loop" ELSE "idle"
    /\ IF r.out = "item"
       THEN /\ items' = Append(items, r.item)
            /\ starts' = Append(starts, Len(consumed) + Len(d1)
                                        + (RemoveSpaces(pF).parsed - pF.parsed))
            /\ ends' = Append(ends, Len(consumed) + Len(d1)
                                    + (r.p.parsed - pF.parsed))
       ELSE UNCHANGED <<items, starts, ends>>
    /\ UNCHANGED input
    /\ UNCHANGED logvars

\* One iteration of the loop of next() with read result rd.
Iterate(rd) ==
    \E r \in {NextIter(Self, rd)} :
       \E pF \in {IF needs_read THEN FillBuf(Self, rd) ELSE Self} :
          \E d1 \in {IF needs_read
                     THEN SubSeq(buf, parsed + 1, RemoveSpaces(Self).parsed)
                     ELSE <<>>} :
             Record(pF, r, d1)

\* The read delivers n >= 1 bytes: any number the slice and the source allow.
NextOnData ==
    /\ CanStep
    /\ needs_read
    /\ \E n \in 1..Min(ReadRoom(Self), Len(rest)) :
          /\ Iterate([ok |-> TRUE, data |-> Take(rest, n)])
          /\ rest' = Drop(rest, n)
    /\ reads' = reads + 1
    /\ UNCHANGED errs

\* The source is exhausted and the read returns 0 (or no read is needed).
NextOnEof ==
    /\ CanStep
    /\ needs_read => rest = <<>>
    /\ Iterate([ok |-> TRUE, data |-> <<>>])
    /\ UNCHANGED <<rest, errs, reads>>

\* The read fails.
NextOnErr ==
    /\ CanStep
    /\ needs_read
    /\ errs < MaxErrs
    /\ Iterate([ok |-> FALSE, data |-> <<>>])
    /\ errs' = errs + 1
    /\ UNCHANGED <<rest, reads>>

Next == NextOnData \/ NextOnEof \/ NextOnErr

Spec == Init /\ [][Next]_vars

(***************************************************************************)
(* The specification of quoted values: the stream is one pair a="body",    *)
(* with or without the final new line; the body holds new lines, blanks    *)
(* and inner quotes.                                                       *)
(***************************************************************************)
QuotedAlphabet == {97, SP, NL, QUOTE}

QuotedLine(body, nl) ==
    <<97, EQ, QUOTE>> \o body \o <<QUOTE>> \o (IF nl THEN <<NL>> ELSE <<>>)

InitQuoted ==
    \E body \in SeqsUpTo(QuotedAlphabet, MaxBody) : \E nl \in BOOLEAN :
       InitWith(QuotedLine(body, nl), QuotedCap)

SpecQuoted == InitQuoted /\ [][Next]_vars

(***************************************************************************)
(* The specification of buffer growth: the stream is one line a=value      *)
(* whose value, naked or quoted, is at least as long as the capacity.      *)
(***************************************************************************)
NakedValues == {v \in SeqsUpTo({97, 98}, MaxValue) : Len(v) >= GrowCap}

QuotedValues ==
    {<<QUOTE>> \o b \o <<QUOTE>> :
        b \in {v \in SeqsUpTo({97, SP, NL}, MaxValue) : Len(v) >= GrowCap}}

InitGrow ==
    \E v \in NakedValues \cup QuotedValues :
       InitWith(<<97, EQ>> \o v \o <<NL>>, GrowCap)

SpecGrow == InitGrow /\ [][Next]_vars

(***************************************************************************)
(* The specification of well-formed streams: every line is one or two      *)
(* pairs key=value separated by one space, and ends with a new line.       *)
(***************************************************************************)
Pairs == {<<97, EQ, 97>>, <<98, EQ, 98>>}

Lines ==
    {p \o <<NL>> : p \in Pairs} \cup {p \o <<SP>> \o q \o <<NL>> : p, q \in Pairs}

RECURSIVE Flatten(_)
Flatten(ls) == IF ls = <<>> THEN <<>> ELSE ls[1] \o Flatten(Drop(ls, 1))

InitLines ==
    \E ls \in SeqsUpTo(Lines, MaxLines) : InitWith(Flatten(ls), LinesCap)

SpecLines == InitLines /\ [][Next]_vars

(***************************************************************************)
(* The reference run: a caller that calls next() until the first           *)
(* end-of-stream, on a source that delivers with every read as many bytes  *)
(* as the slice takes (the whole input when the capacity allows).          *)
(***************************************************************************)
\* Bytes the reference source delivers to the read of this iteration.
Delivered(p, pending) ==
    IF p.needs_read THEN Min(ReadRoom(p), Len(pending)) ELSE 0

RECURSIVE Drive(_, _, _, _)

\* The caller's loop after an iteration of next() returned r.
DriveOn(r, pending, acc, fuel) ==
    IF r.out = "panic" THEN [panicked |-> TRUE, items |-> acc]
    ELSE IF r.out = "item" /\ r.item.type = "none"
    THEN [panicked |-> FALSE, items |-> acc]
    ELSE IF fuel = 0 THEN [panicked |-> FALSE, items |-> acc]
    ELSE Drive(r.p, pending, IF r.out = "item" THEN Append(acc, r.item) ELSE acc,
               fuel - 1)

Drive(p, pending, acc, fuel) ==
    DriveOn(NextIter(p, [ok |-> TRUE, data |-> Take(pending, Delivered(p, pending))]),
            Drop(pending, Delivered(p, pending)), acc, fuel)

\* The items up to the first end-of-stream when inp is delivered at once.
RunWhole(inp, capacity) == Drive(NewParser(capacity), inp, <<>>, 2 * Len(inp) + 4)

(***************************************************************************)
(* Vocabulary of the properties.                                           *)
(***************************************************************************)
\* next() has just returned the first end-of-stream to the caller.
Finished ==
    /\ pc = "idle"
    /\ items # <<>>
    /\ items[Len(items)].type = "none"
    /\ Nones = 1

\* The items returned before the first end-of-stream.
Yielded == SubSeq(items, 1, Len(items) - 1)

\* The unconsumed window buf[parsed..].
Window == Drop(buf, parsed)

QuoteFree(inp) == \A i \in 1..Len(inp) : inp[i] # QUOTE

\* The stream offsets of the new lines after offset off.
NewLinesAfter(off) == {k \in (off + 1)..Len(input) : input[k] = NL}

\* The raw bytes of the line of the stream that holds offset off, from off
\* up to but excluding its new line.
RawLine(off) ==
    IF NewLinesAfter(off) = {} THEN Drop(input, off)
    ELSE SubSeq(input, off + 1, Least(NewLinesAfter(off)) - 1)

\* The stream offset just past the line that holds offset off.
PastLine(off) ==
    IF NewLinesAfter(off) = {} THEN Len(input) ELSE Least(NewLinesAfter(off))

\* Item i is a record or a line error (not an I/O error, not end-of-stream).
IsLineItem(i) ==
    items[i].type = "record" \/ (items[i].type = "error" /\ items[i].kind # "Io")

\* The record of a line that holds the single pair key=value.
OnePair(key, value) ==
    RecordItem([EmptyRecord EXCEPT
                   !.key_values = MapInsert(<<>>, key, ValueFromStr(value))])

(***************************************************************************)
(* Properties.                                                             *)
(***************************************************************************)
\* C1: refill-size independence.  For a valid input (well-formed lines),
\* whatever the sizes of the reads, the items returned up to the first
\* end-of-stream are the items returned when the whole input is delivered
\* by a single read.
C1_RefillIndependence ==
    (Finished /\ errs = 0) => Yielded = RunWhole(input, LinesCap).items

\* C2: next() returns end-of-stream only when hit_eof holds and the window
\* buf[parsed..] holds no further line: calling next() again on the
\* exhausted source does not return a record or an error.
C2_EndOfStream ==
    (pc = "idle" /\ items # <<>> /\ items[Len(items)].type = "none")
        => /\ hit_eof
           /\ ~ /\ NextIter(Self, [ok |-> TRUE, data |-> <<>>]).out = "item"
                /\ NextIter(Self, [ok |-> TRUE, data |-> <<>>]).item.type # "none"

\* C3: a malformed line yields one error whose line field is the raw bytes
\* of the line up to but excluding its new line, and the parser skips the
\* line: every later record or line error starts behind it, so that no
\* byte of the line is parsed as a separate item (inputs without quotes,
\* where the lines of the stream are the runs between new lines; blanks at
\* the end of the line are not compared).
C3_LineErrorRecovery ==
    QuoteFree(input) =>
        \A i \in 1..Len(items) :
            (items[i].type = "error" /\ items[i].kind # "Io")
                => /\ Len(items[i].line) = 1
                   /\ EatSpaceEnd(items[i].line[1]) = EatSpaceEnd(RawLine(starts[i]))
                   /\ \A j \in (i + 1)..Len(items) :
                          IsLineItem(j) => starts[j] >= PastLine(starts[i])

\* C4: a failed read makes next() return one error item of kind Io without
\* a line, does not end the stream and loses no data: the reader, hit_eof
\* and the unconsumed bytes are as before (leading blanks aside), and the
\* next iteration returns what it would have returned without the failure.
C4_ReadError ==
    [][errs' = errs + 1 =>
         /\ items' = Append(items, ErrorItem("Io", <<>>))
         /\ pc' = "idle"
         /\ needs_read'
         /\ hit_eof' = hit_eof
         /\ rest' = rest
         /\ Drop(buf', parsed') = EatSpace(Window)
         /\ consumed' \o Drop(buf', parsed') = consumed \o Window
         /\ \A n \in (IF rest = <<>> THEN {0}
                      ELSE 1..Min(Len(rest), Min(ReadRoom(Self), ReadRoom(Self')))) :
               \E rd \in {[ok |-> TRUE, data |-> Take(rest, n)]} :
                  /\ NextIter(Self', rd).out = NextIter(Self, rd).out
                  /\ NextIter(Self', rd).item = NextIter(Self, rd).item
                  /\ Drop(NextIter(Self', rd).p.buf, NextIter(Self', rd).p.parsed)
                       = Drop(NextIter(Self, rd).p.buf, NextIter(Self, rd).p.parsed)
      ]_vars

\* C4 happens: a read has just failed in the middle of the stream, with
\* unconsumed bytes in the window and bytes the source has yet to deliver.
C4_Witness ==
    /\ pc = "idle"
    /\ items # <<>>
    /\ items[Len(items)] = ErrorItem("Io", <<>>)
    /\ reads >= 1
    /\ Window # <<>>
    /\ rest # <<>>

\* C5: byte conservation.  The bytes consumed so far followed by the
\* unconsumed window buf[parsed..] are exactly the bytes the successful
\* reads have delivered, in order.
C5_ByteConservation ==
    consumed \o Window = Take(input, Len(input) - Len(rest))

\* C5 happens: after several reads, a failed read and the end of the
\* source, bytes were consumed and other bytes are still in the window.
C5_Witness ==
    /\ reads >= 2
    /\ errs = 1
    /\ hit_eof
    /\ consumed # <<>>
    /\ Window # <<>>

\* C6: items come in line order and a line yields at most one item: of two
\* records or line errors, the later one starts at a later offset of the
\* stream, behind a new line that follows the start of the earlier one
\* (well-formed lines without quotes).
C6_LineOrder ==
    \A i, j \in 1..Len(items) :
        (i < j /\ IsLineItem(i) /\ IsLineItem(j))
            => /\ starts[i] < starts[j]
               /\ \E k \in NewLinesAfter(starts[i]) : k <= starts[j]

\* The body of the quoted value of the stream a="body".
QuotedBody ==
    SubSeq(input, 4, Len(input) - (IF input[Len(input)] = NL THEN 2 ELSE 1))

\* C7: a quoted value with embedded new lines and inner quotes decodes as
\* one string, all the bytes between its opening and its closing quote,
\* wherever the read boundaries fall.
C7_QuotedValue ==
    (Finished /\ errs = 0) => Yielded = <<OnePair(<<97>>, QuotedBody)>>

\* The value of the stream a=value, without the quotes of a quoted value.
GrowValue ==
    IF input[3] = QUOTE THEN SubSeq(input, 4, Len(input) - 2)
    ELSE SubSeq(input, 3, Len(input) - 1)

\* C8: a line whose value is at least as long as the capacity is decoded
\* into one record that carries the complete, unmodified value.
C8_BufferGrowth ==
    (Finished /\ errs = 0) => Yielded = <<OnePair(<<97>>, GrowValue)>>

\* C9: the end of the source acts as a line terminator: an input without
\* its final new line yields the items of the input with it (both
\* delivered by a single read).
C9_ImplicitTerminator ==
    (/\ Finished
     /\ errs = 0
     /\ reads <= 1
     /\ input # <<>>
     /\ input[Len(input)] # NL
     /\ Len(input) < InitCap)
        => Yielded = RunWhole(input \o <<NL>>, InitCap).items

\* C10: for every input and every chunking next() returns without
\* panicking: every slice index stays within bounds.
C10_NoPanic == pc # "panicked"


(***************************************************************************)
(* The environment of the specifications of single fields: a source that   *)
(* delivers all its bytes with the first read (a byte slice that fits the  *)
(* buffer) and never fails.                                                *)
(***************************************************************************)
NextOnAll ==
    /\ CanStep
    /\ needs_read
    /\ rest # <<>>
    /\ Len(rest) <= ReadRoom(Self)
    /\ Iterate([ok |-> TRUE, data |-> rest])
    /\ rest' = <<>>
    /\ reads' = reads + 1
    /\ UNCHANGED errs

NextWhole == NextOnAll \/ NextOnEof

\* The line a=a that follows the line under test.
NextLine == <<97, EQ, 97, NL>>

\* The stream key=value, then the line a=a.
FieldStream(key, value) == key \o <<EQ>> \o value \o <<NL>> \o NextLine

\* The value of the first line of such a stream whose key has n bytes.
FieldValue(n) == SubSeq(input, n + 2, Len(input) - Len(NextLine) - 1)

\* The raw first line of such a stream.
FieldLine == SubSeq(input, 1, Len(input) - Len(NextLine) - 1)

(***************************************************************************)
(* The specification of timestamps: the first line is ts=value.            *)
(***************************************************************************)
\* n in decimal with k digits.
RECURSIVE Dec(_, _)
Dec(n, k) == IF k = 0 THEN <<>> ELSE Append(Dec(n \div 10, k - 1), 48 + (n % 10))

\* yyyy-mm-ddThh:mm:ss.nnnnnnZ
Stamp(y, mo, d, h, mi, sc, f) ==
    Dec(y, 4) \o <<45>> \o Dec(mo, 2) \o <<45>> \o Dec(d, 2) \o <<84>>
        \o Dec(h, 2) \o <<COLON>> \o Dec(mi, 2) \o <<COLON>> \o Dec(sc, 2)
        \o <<46>> \o Dec(f, 6) \o <<90>>

\* Values in the layout, with fields in and out of their calendar range.
LaidOutStamps ==
    {Stamp(y, mo, d, h, mi, sc, f) :
        y \in {1969, 1970, 2021}, mo \in {0, 1, 12, 13}, d \in {0, 1, 31},
        h \in {0, 23}, mi \in {0, 59}, sc \in {0, 59, 60}, f \in {0, 624447}}

\* The stamp of the tests, 2021-02-23T13:15:48.624447Z.
TestStamp == Stamp(2021, 2, 23, 13, 15, 48, 624447)

\* The stamp of the tests with one byte replaced, cut short or extended.
OtherStamps ==
    {[TestStamp EXCEPT ![i] = b] : i \in 1..27, b \in {120, 45, 43, 58, 46, 128}}
        \cup {Take(TestStamp, 26), TestStamp \o <<48>>, <<>>, Take(TestStamp, 10)}

InitTs ==
    \E v \in LaidOutStamps \cup OtherStamps :
       InitWith(FieldStream(KeyTs, v), FieldCap)

SpecTs == InitTs /\ [][NextWhole]_vars

\* The layout of a timestamp: the separators at their offsets (0-based) and
\* a digit at every other offset.
Separators == (4 :> 45) @@ (7 :> 45) @@ (10 :> 84) @@ (13 :> 58) @@ (16 :> 58)
              @@ (19 :> 46) @@ (26 :> 90)

Layout(v) ==
    /\ Len(v) = 27
    /\ \A i \in 0..26 :
          IF i \in DOMAIN Separators THEN v[i + 1] = Separators[i]
          ELSE IsDigit(v[i + 1])

\* C11: every numeric conversion of the timestamp is checked.  For a value
\* in the layout the first item is a record with a timestamp at or after
\* the epoch, or an InvalidTimestamp error; next() does not panic on the
\* addition to the epoch.
C11_CheckedConversions ==
    Layout(FieldValue(2)) =>
        /\ pc # "panicked"
        /\ items # <<>> =>
              \/ /\ items[1].type = "record"
                 /\ Len(items[1].record.timestamp) = 1
                 /\ items[1].record.timestamp[1].days >= 0
              \/ /\ items[1].type = "error"
                 /\ items[1].kind = "InvalidTimestamp"

\* C12: a value outside the layout yields InvalidTimestamp with the raw
\* line, and the following line is parsed normally.
C12_TimestampLayout ==
    ~Layout(FieldValue(2)) =>
        /\ pc # "panicked"
        /\ Len(items) >= 1 => items[1] = ErrorItem("InvalidTimestamp", <<FieldLine>>)
        /\ Len(items) >= 2 => items[2] = OnePair(<<97>>, <<97>>)
        /\ Len(items) >= 3 => items[3] = NoneItem


(***************************************************************************)
(* The specification of single fields: the first line is key=value, with   *)
(* the value naked or in quotes.                                           *)
(***************************************************************************)
\* Level names in several cases, and texts that are no level name.
LevelTexts ==
    {<<73, 78, 70, 79>>,           \* INFO
     <<119, 97, 114, 110>>,        \* warn
     <<69, 114, 114, 111, 114>>,   \* Error
     <<84, 114, 97, 67, 69>>,      \* TraCE
     <<68, 69, 66, 85, 71>>,       \* DEBUG
     <<105, 110, 102, 111>>,       \* info
     <<73, 110, 102, 111>>,        \* Info
     <<105, 78, 70, 79>>,          \* iNFO
     <<87, 65, 82, 78>>,           \* WARN
     <<101, 114, 114, 111, 114>>,  \* error
     <<116, 114, 97, 99, 101>>,    \* trace
     <<100, 101, 98, 117, 103>>,   \* debug
     <<79, 70, 70>>,               \* OFF
     <<111, 102, 102>>,            \* off
     <<105, 110, 102, 111, 115>>,  \* infos
     <<105, 110, 102>>,            \* inf
     <<>>}                         \* (empty)

\* Files with and without a line number.
FileTexts ==
    {<<97, 58, 49>>,                                          \* a:1
     <<97>>,                                                  \* a
     <<97, 58, 98>>,                                          \* a:b
     <<97, 58, 98, 58, 49>>,                                  \* a:b:1
     <<97, 58>>,                                              \* a:
     <<58, 49>>,                                              \* :1
     <<97, 58, 48, 48, 55>>,                                  \* a:007
     <<97, 58, 43, 53>>,                                      \* a:+5
     <<97, 58, 45, 53>>,                                      \* a:-5
     <<97, 58, 52, 50, 57, 52, 57, 54, 55, 50, 57, 53>>,      \* a:4294967295
     <<97, 58, 52, 50, 57, 52, 57, 54, 55, 50, 57, 54>>,      \* a:4294967296
     <<97, 58, 52, 50, 57, 52, 57, 54, 55, 50, 57, 53, 48>>}  \* a:42949672950

\* Texts of every inferred type.
TypedTexts ==
    {<<116, 114, 117, 101>>,                                                              \* true
     <<102, 97, 108, 115, 101>>,                                                          \* false
     <<84, 114, 117, 101>>,                                                               \* True
     <<49>>,                                                                              \* 1
     <<45, 49>>,                                                                          \* -1
     <<43, 49>>,                                                                          \* +1
     <<48, 48, 55>>,                                                                      \* 007
     <<57, 50, 50, 51, 51, 55, 50, 48, 51, 54, 56, 53, 52, 55, 55, 53, 56, 48, 55>>,      \* 9223372036854775807
     <<57, 50, 50, 51, 51, 55, 50, 48, 51, 54, 56, 53, 52, 55, 55, 53, 56, 48, 56>>,      \* 9223372036854775808
     <<45, 57, 50, 50, 51, 51, 55, 50, 48, 51, 54, 56, 53, 52, 55, 55, 53, 56, 48, 56>>,  \* -9223372036854775808
     <<45, 57, 50, 50, 51, 51, 55, 50, 48, 51, 54, 56, 53, 52, 55, 55, 53, 56, 48, 57>>,  \* -9223372036854775809
     <<49, 46, 53>>,                                                                      \* 1.5
     <<49, 101, 53>>,                                                                     \* 1e5
     <<110, 97, 110>>,                                                                    \* nan
     <<45, 105, 110, 102>>,                                                               \* -inf
     <<46, 53>>,                                                                          \* .5
     <<53, 46>>,                                                                          \* 5.
     <<46>>,                                                                              \* .
     <<49, 46, 50, 46, 51>>,                                                              \* 1.2.3
     <<97, 98, 99>>,                                                                      \* abc
     <<45>>,                                                                              \* -
     <<49, 101>>,                                                                         \* 1e
     <<101, 53>>}                                                                         \* e5

\* Texts that are no UTF-8, and one of two bytes that is.
BrokenTexts ==
    {<<128>>,          \* \x80
     <<97, 128>>,      \* a\x80
     <<97, 58, 128>>,  \* a:\x80
     <<49, 255>>,      \* 1\xff
     <<195, 169>>,     \* \xc3\xa9
     <<195>>}          \* \xc3

FieldKeys == {KeyTs, KeyLvl, KeyMsg, KeyTarget, KeyModule, KeyFile, <<97>>, <<128>>}

FieldTexts == LevelTexts \cup FileTexts \cup TypedTexts \cup BrokenTexts \cup {TestStamp}

Quoted(value) == <<QUOTE>> \o value \o <<QUOTE>>

InitFields ==
    \E key \in FieldKeys, value \in FieldTexts, quoted \in BOOLEAN :
       InitWith(FieldStream(key, IF quoted THEN Quoted(value) ELSE value), FieldCap)

SpecFields == InitFields /\ [][NextWhole]_vars

\* The key, the text after '=' and the value of the first line of the stream.
InKey == Take(input, Least({i \in 1..Len(input) : input[i] = EQ}) - 1)

InText == FieldValue(Len(InKey))

InQuoted == InText # <<>> /\ InText[1] = QUOTE

InValue == IF InQuoted THEN SubSeq(InText, 2, Len(InText) - 1) ELSE InText

\* The first item next() returned.
First == items[1]

\* The error kind the faults of a key's line are reported with.
KindFor(key) ==
    IF ~Utf8Valid(key) THEN "KeyInvalidUt8"
    ELSE IF key = KeyTs THEN "InvalidTimestamp"
    ELSE IF key = KeyLvl THEN "InvalidLevel"
    ELSE IF key = KeyFile THEN "InvalidFile"
    ELSE "InvalidValue"

LevelNames ==
    {<<101, 114, 114, 111, 114>>, <<119, 97, 114, 110>>, <<105, 110, 102, 111>>,
     <<100, 101, 98, 117, 103>>, <<116, 114, 97, 99, 101>>}

\* The value is not one its key accepts.
BadValue ==
    \/ ~Utf8Valid(InValue)
    \/ InKey = KeyTs /\ Len(InValue) # 27
    \/ InKey = KeyLvl /\ LowerAll(InValue) \notin LevelNames
    \/ InKey = KeyFile /\ \A i \in 1..Len(InValue) : InValue[i] # COLON

\* C13: the error kind is determined by where the fault is.  A key that is
\* no UTF-8 yields KeyInvalidUt8 whatever the value; otherwise a value its
\* key does not accept yields InvalidTimestamp for ts, InvalidLevel for lvl,
\* InvalidFile for file and InvalidValue for every other key, and no line
\* yields an error of another kind than its key's.
C13_ErrorKind ==
    reads >= 1 =>
        /\ items # <<>>
        /\ First.type = "error" => First.kind = KindFor(InKey)
        /\ ~Utf8Valid(InKey) \/ BadValue =>
              First = ErrorItem(KindFor(InKey), <<FieldLine>>)

C13_Witness ==
    /\ reads >= 1
    /\ InKey = KeyLvl
    /\ ~Utf8Valid(InValue)
    /\ ~InQuoted
    /\ items # <<>>
    /\ First = ErrorItem("InvalidLevel", <<FieldLine>>)


\* C14: for every error item next() returned, its line is None if and only
\* if its kind is Io; every line-level error carries Some(line).
C14_LineIffNotIo ==
    \A i \in 1..Len(items) :
       items[i].type = "error" =>
          /\ items[i].line = <<>> <=> items[i].kind = "Io"
          /\ items[i].kind # "Io" => Len(items[i].line) = 1

C14_Witness ==
    \E i, j \in 1..Len(items) :
       /\ items[i].type = "error" /\ items[i].kind = "Io"
       /\ items[j].type = "error" /\ items[j].kind = "KeyInvalidUt8"
       /\ items[j].line # <<>>


(***************************************************************************)
(* The specification of blank streams: spaces, tabs and new lines only,    *)
(* delivered in any chunks by a source that may fail.                      *)
(***************************************************************************)
InitBlank ==
    \E inp \in SeqsUpTo({SP, TAB, NL}, MaxBlank) : InitWith(inp, InitCap)

SpecBlank == InitBlank /\ [][Next]_vars

\* C15: a stream of spaces, tabs and new lines only, of any length and in
\* any chunks, yields no record and no line error: what next() returns is
\* end-of-stream (or the error of a failed read), and it does not panic.
C15_BlankInput ==
    /\ pc # "panicked"
    /\ \A i \in 1..Len(items) :
          \/ items[i].type = "none"
          \/ items[i].type = "error" /\ items[i].kind = "Io"

C15_Witness ==
    /\ Finished
    /\ items = <<NoneItem>>
    /\ reads >= 2
    /\ Len(input) = MaxBlank
    /\ {input[i] : i \in 1..Len(input)} = {SP, TAB, NL}


\* The names of the levels as the Level enum prints them and as its variants
\* are spelled.
ExactNames ==
    {<<69, 82, 82, 79, 82>>, <<87, 65, 82, 78>>, <<73, 78, 70, 79>>,
     <<68, 69, 66, 85, 71>>, <<84, 82, 65, 67, 69>>,
     <<69, 114, 114, 111, 114>>, <<87, 97, 114, 110>>, <<73, 110, 102, 111>>,
     <<68, 101, 98, 117, 103>>, <<84, 114, 97, 99, 101>>}

\* C16: the lvl value is parsed case-exactly: a text that is not exactly a
\* level name, a level name in another letter case included, yields
\* InvalidLevel.
C16_LevelCaseExact ==
    reads >= 1 /\ InKey = KeyLvl /\ InValue \notin ExactNames =>
        /\ items # <<>>
        /\ First = ErrorItem("InvalidLevel", <<FieldLine>>)

\* The level a lower-case level name denotes.
LevelOf(low) ==
    IF low = <<101, 114, 114, 111, 114>> THEN "Error"
    ELSE IF low = <<119, 97, 114, 110>> THEN "Warn"
    ELSE IF low = <<105, 110, 102, 111>> THEN "Info"
    ELSE IF low = <<100, 101, 98, 117, 103>> THEN "Debug"
    ELSE "Trace"

\* C17: the lvl value is matched against the five level names whatever the
\* case of its letters and whether it is quoted or not: the line yields a
\* record with that level ("INFO" in quotes, INFO, warn, Error, TraCE and
\* DEBUG give Info, Info, Warn, Error, Trace and Debug).
C17_LevelAnyCase ==
    reads >= 1 /\ InKey = KeyLvl /\ LowerAll(InValue) \in LevelNames =>
        /\ items # <<>>
        /\ First = RecordItem([EmptyRecord EXCEPT !.level = LevelOf(LowerAll(InValue))])

C17_Witness ==
    /\ reads >= 1
    /\ InKey = KeyLvl
    /\ InQuoted
    /\ InValue = <<84, 114, 97, 67, 69>>
    /\ items # <<>>
    /\ First.type = "record"
    /\ First.record.level = "Trace"


(***************************************************************************)
(* The specification of repeated keys: the first line holds the same key   *)
(* twice, key="v1" key="v2".                                               *)
(***************************************************************************)
\* Values the key accepts.
ValidFor(key) ==
    IF key = KeyTs THEN {TestStamp, Stamp(1970, 1, 1, 0, 0, 0, 0)}
    ELSE IF key = KeyLvl THEN {<<73, 78, 70, 79>>, <<119, 97, 114, 110>>}
    ELSE IF key = KeyFile THEN {<<97, COLON, 49>>, <<98, COLON, 50>>}
    ELSE {<<>>, <<97>>, <<98>>, <<49>>}

DupKeys == {KeyTs, KeyLvl, KeyMsg, KeyTarget, KeyModule, KeyFile, <<97>>}

DupLine(key, v1, v2) ==
    key \o <<EQ>> \o Quoted(v1) \o <<SP>> \o key \o <<EQ>> \o Quoted(v2)
        \o <<NL>> \o NextLine

InitDup ==
    \E key \in DupKeys :
       \E v1, v2 \in ValidFor(key) : InitWith(DupLine(key, v1, v2), FieldCap)

SpecDup == InitDup /\ [][NextWhole]_vars

\* The offsets of the quotes of the first line.
LineQuotes == {i \in 1..Len(FieldLine) : FieldLine[i] = QUOTE}

\* The value of the last occurrence of the key.
DupLast ==
    SubSeq(FieldLine, Greatest(LineQuotes \ {Greatest(LineQuotes)}) + 1,
           Greatest(LineQuotes) - 1)

\* The record of the line that holds key=value only.
LastOnly(key, value) == Interpret(EmptyRecord, key, value).record

\* C18: when a key occurs twice in a line, the record holds one entry for
\* it, with the value of the last occurrence, for every key: the record is
\* the one of the line that holds the last occurrence only, and no error is
\* raised.
C18_LastWriteWins ==
    reads >= 1 =>
        /\ items # <<>>
        /\ First = RecordItem(LastOnly(InKey, DupLast))


(***************************************************************************)
(* Type inference and the file field, on the specification of single       *)
(* fields.                                                                 *)
(***************************************************************************)
\* Texts that are an i64.
IntTexts ==
    {<<49>>,                                                                              \* 1
     <<45, 49>>,                                                                          \* -1
     <<43, 49>>,                                                                          \* +1
     <<48, 48, 55>>,                                                                      \* 007
     <<57, 50, 50, 51, 51, 55, 50, 48, 51, 54, 56, 53, 52, 55, 55, 53, 56, 48, 55>>,      \* 9223372036854775807
     <<45, 57, 50, 50, 51, 51, 55, 50, 48, 51, 54, 56, 53, 52, 55, 55, 53, 56, 48, 56>>}  \* -9223372036854775808

\* Texts that are no i64 but an f64.
FloatTexts ==
    {<<57, 50, 50, 51, 51, 55, 50, 48, 51, 54, 56, 53, 52, 55, 55, 53, 56, 48, 56>>,      \* 9223372036854775808
     <<45, 57, 50, 50, 51, 51, 55, 50, 48, 51, 54, 56, 53, 52, 55, 55, 53, 56, 48, 57>>,  \* -9223372036854775809
     <<49, 46, 53>>,                                                                      \* 1.5
     <<49, 101, 53>>,                                                                     \* 1e5
     <<110, 97, 110>>,                                                                    \* nan
     <<45, 105, 110, 102>>,                                                               \* -inf
     <<46, 53>>,                                                                          \* .5
     <<53, 46>>,                                                                          \* 5.
     <<105, 110, 102>>}                                                                   \* inf

\* Texts that are neither a bool nor a number.
StringTexts ==
    {<<84, 114, 117, 101>>,   \* True
     <<46>>,                  \* .
     <<49, 46, 50, 46, 51>>,  \* 1.2.3
     <<97, 98, 99>>,          \* abc
     <<45>>,                  \* -
     <<49, 101>>,             \* 1e
     <<101, 53>>,             \* e5
     <<73, 78, 70, 79>>,      \* INFO
     <<97, 58, 49>>,          \* a:1
     <<79, 70, 70>>}          \* OFF

\* The entry of the key a in the first item's record.
Inferred == First.record.key_values[<<97>>]

\* C19: type inference for a non-reserved key never fails and tries the
\* types in a fixed order: Bool for the literals true and false, otherwise
\* Int for an i64 (an integer out of the range is not wrapped: it is a
\* Float), otherwise Float, otherwise String with the text unchanged.
C19_TypeInference ==
    reads >= 1 /\ InKey = <<97>> /\ Utf8Valid(InValue) =>
        /\ items # <<>>
        /\ First.type = "record"
        /\ DOMAIN First.record.key_values = {<<97>>}
        /\ Inferred.tag \in {"Bool", "Int", "Float", "String"}
        /\ InValue = <<116, 114, 117, 101>> =>
              Inferred = [tag |-> "Bool", neg |-> FALSE, v |-> <<1>>]
        /\ InValue = <<102, 97, 108, 115, 101>> =>
              Inferred = [tag |-> "Bool", neg |-> FALSE, v |-> <<0>>]
        /\ Inferred.tag = "Bool" =>
              InValue \in {<<116, 114, 117, 101>>, <<102, 97, 108, 115, 101>>}
        /\ InValue \in IntTexts => Inferred.tag = "Int"
        /\ InValue = <<48, 48, 55>> =>
              Inferred = [tag |-> "Int", neg |-> FALSE, v |-> <<55>>]
        /\ InValue = <<45, 49>> =>
              Inferred = [tag |-> "Int", neg |-> TRUE, v |-> <<49>>]
        /\ Inferred.tag = "Int" => DigitsLeq(Inferred.v, I64MinDigits)
        /\ InValue \in FloatTexts => Inferred = [tag |-> "Float", neg |-> FALSE, v |-> InValue]
        /\ InValue \in StringTexts => Inferred.tag = "String"
        /\ Inferred.tag = "String" => Inferred.v = InValue

C19_Witness ==
    /\ reads >= 1
    /\ InKey = <<97>>
    /\ InValue = <<57, 50, 50, 51, 51, 55, 50, 48, 51, 54, 56, 53, 52, 55, 55, 53, 56, 48, 56>>
    /\ items # <<>>
    /\ First.type = "record"
    /\ Inferred.tag = "Float"

\* The file values that are accepted, with their path and line number.
GoodFiles ==
    {<<<<97, 58, 49>>, <<97>>, <<49>>>>,                                                                          \* a:1
     <<<<97, 58, 98, 58, 49>>, <<97, 58, 98>>, <<49>>>>,                                                          \* a:b:1
     <<<<58, 49>>, <<>>, <<49>>>>,                                                                                \* :1
     <<<<97, 58, 48, 48, 55>>, <<97>>, <<55>>>>,                                                                  \* a:007
     <<<<97, 58, 43, 53>>, <<97>>, <<53>>>>,                                                                      \* a:+5
     <<<<97, 58, 52, 50, 57, 52, 57, 54, 55, 50, 57, 53>>, <<97>>, <<52, 50, 57, 52, 57, 54, 55, 50, 57, 53>>>>}  \* a:4294967295

\* C20: the file value is split at its last ':'; the part before is the
\* path and the part after is a u32 line number.  A value without ':',
\* with a suffix that is no number or with one above 2^32 - 1 yields
\* InvalidFile, and no line number is wrapped.
C20_FileSplit ==
    reads >= 1 /\ InKey = KeyFile =>
        /\ items # <<>>
        /\ \A g \in GoodFiles :
              InValue = g[1] =>
                 First = RecordItem([EmptyRecord EXCEPT
                            !.file = <<[path |-> g[2], line |-> g[3]]>>])
        /\ InValue \notin {g[1] : g \in GoodFiles} =>
              First = ErrorItem("InvalidFile", <<FieldLine>>)

C20_Witness ==
    /\ reads >= 1
    /\ InKey = KeyFile
    /\ InValue = <<97, COLON, 98, COLON, 49>>
    /\ items # <<>>
    /\ First.type = "record"
    /\ First.record.file = <<[path |-> <<97, COLON, 98>>, line |-> <<49>>]>>


(***************************************************************************)
(* The logfmt writer (src/format/logfmt.rs) and the specification of       *)
(* written lines: the stream is the line the writer emits for a record.    *)
(***************************************************************************)
BACKSLASH == 92
CR == 13

\* impl fmt::Write for Buf, write_char (ASCII).
WriteChar(c) ==
    IF c = QUOTE THEN <<BACKSLASH, QUOTE>>
    ELSE IF c = BACKSLASH THEN <<BACKSLASH, BACKSLASH>>
    ELSE IF c = NL THEN <<BACKSLASH, 110>>
    ELSE IF c = CR THEN <<BACKSLASH, 114>>
    ELSE IF c = TAB THEN <<BACKSLASH, 116>>
    ELSE <<c>>

\* impl fmt::Write for Buf, write_str
RECURSIVE WriteStr(_)
WriteStr(string) ==
    IF string = <<>> THEN <<>> ELSE WriteChar(string[1]) \o WriteStr(Drop(string, 1))

\* Buf::extend_from_slice: a backslash before every quote.
RECURSIVE ExtendFromSlice(_)
ExtendFromSlice(bytes) ==
    IF bytes = <<>> THEN <<>>
    ELSE (IF bytes[1] = QUOTE THEN <<BACKSLASH, QUOTE>> ELSE <<bytes[1]>>)
            \o ExtendFromSlice(Drop(bytes, 1))

\* itoa::Buffer::format
RECURSIVE Itoa(_)
Itoa(n) == IF n < 10 THEN <<48 + n>> ELSE Append(Itoa(n \div 10), 48 + (n % 10))

\* fn zero_pad2 and fn zero_pad6
ZeroPad2(v) == IF Len(v) = 1 THEN <<48, v[1]>> ELSE <<v[1], v[2]>>

ZeroPad6(v) == [i \in 1..(6 - Len(v)) |-> 48] \o v

\* Timestamp::from, for a time of secs seconds and micro microseconds
\* since the epoch, at or after LEAPOCH.
LEAPOCH == 946684800 + 86400 * (31 + 29)
DAYS_PER_400Y == 365 * 400 + 97
DAYS_PER_100Y == 365 * 100 + 24
DAYS_PER_4Y == 365 * 4 + 1
DAYS_IN_MONTH == <<31, 30, 31, 30, 31, 31, 30, 31, 30, 31, 31, 29>>

\* The loop over DAYS_IN_MONTH: [month, remdays] from month m on.
RECURSIVE MonthOf(_, _)
MonthOf(m, remdays) ==
    IF m = 12 \/ DAYS_IN_MONTH[m + 1] > remdays THEN [month |-> m, remdays |-> remdays]
    ELSE MonthOf(m + 1, remdays - DAYS_IN_MONTH[m + 1])

TimestampFrom(secs, micro) ==
    LET s0 == secs - LEAPOCH
        days == s0 \div 86400
        remsecs == s0 % 86400
        qc_cycles == days \div DAYS_PER_400Y
        rem0 == days % DAYS_PER_400Y
        c0 == rem0 \div DAYS_PER_100Y
        c_cycles == IF c0 = 4 THEN 3 ELSE c0
        rem1 == rem0 - c_cycles * DAYS_PER_100Y
        q0 == rem1 \div DAYS_PER_4Y
        q_cycles == IF q0 = 25 THEN 24 ELSE q0
        rem2 == rem1 - q_cycles * DAYS_PER_4Y
        y0 == rem2 \div 365
        remyears == IF y0 = 4 THEN 3 ELSE y0
        rem3 == rem2 - remyears * 365
        year == remyears + (4 * q_cycles) + (100 * c_cycles) + (400 * qc_cycles)
        mo == MonthOf(0, rem3)
    IN [year |-> (IF mo.month >= 10 THEN year + 1 ELSE year) + 100 + 1900,
        month |-> (IF mo.month >= 10 THEN mo.month - 12 ELSE mo.month) + 2 + 1,
        day |-> mo.remdays + 1,
        hour |-> remsecs \div 3600,
        min |-> (remsecs \div 60) % 60,
        sec |-> remsecs % 60,
        micro |-> micro]

\* fn format_timestamp
FormatTimestamp(t) ==
    Itoa(t.year) \o <<45>> \o ZeroPad2(Itoa(t.month)) \o <<45>>
        \o ZeroPad2(Itoa(t.day)) \o <<84>> \o ZeroPad2(Itoa(t.hour)) \o <<COLON>>
        \o ZeroPad2(Itoa(t.min)) \o <<COLON>> \o ZeroPad2(Itoa(t.sec)) \o <<46>>
        \o ZeroPad6(Itoa(t.micro)) \o <<90>>

\* fn write_timestamp: ts="...", then a space.
WriteTimestamp(secs, micro) ==
    KeyTs \o <<EQ, QUOTE>> \o FormatTimestamp(TimestampFrom(secs, micro))
        \o <<QUOTE, SP>>

\* log::Level::as_str
LevelStr(level) ==
    IF level = "Error" THEN <<69, 82, 82, 79, 82>>
    ELSE IF level = "Warn" THEN <<87, 65, 82, 78>>
    ELSE IF level = "Info" THEN <<73, 78, 70, 79>>
    ELSE IF level = "Debug" THEN <<68, 69, 66, 85, 71>>
    ELSE <<84, 82, 65, 67, 69>>

\* KeyValueVisitor::visit_pair with visit_str, for the pairs kvs.
RECURSIVE WriteKeyValues(_)
WriteKeyValues(kvs) ==
    IF kvs = <<>> THEN <<>>
    ELSE <<SP>> \o ExtendFromSlice(kvs[1][1]) \o <<EQ, QUOTE>> \o WriteStr(kvs[1][2])
            \o <<QUOTE>> \o WriteKeyValues(Drop(kvs, 1))

\* LogFmt::format: the buffers in their order.
LogFmtFormat(r) ==
    WriteTimestamp(r.secs, r.micro)
        \o KeyLvl \o <<EQ, QUOTE>> \o LevelStr(r.level)
        \o <<QUOTE, SP>> \o KeyMsg \o <<EQ, QUOTE>> \o WriteStr(r.msg)
        \o <<QUOTE, SP>> \o KeyTarget \o <<EQ, QUOTE>> \o r.target
        \o <<QUOTE, SP>> \o KeyModule \o <<EQ, QUOTE>> \o r.module
        \o <<QUOTE>> \o WriteKeyValues(r.kvs)
        \o (IF r.add_loc
            THEN <<SP>> \o KeyFile \o <<EQ, QUOTE>> \o r.file \o <<COLON>>
                    \o Itoa(r.line) \o <<QUOTE, NL>>
            ELSE <<NL>>)

\* The records that are written: messages and values with the characters
\* the writer escapes.
WrittenTexts == SeqsUpTo({97, QUOTE, BACKSLASH, NL, TAB, CR}, 2)

\* The record of the tests' first line, without key-values.
BaseRecord ==
    [secs |-> 1614086148, micro |-> 624447, level |-> "Info", msg |-> <<97>>,
     target |-> <<116>>, module |-> <<109>>, kvs |-> <<>>, add_loc |-> FALSE,
     file |-> <<102>>, line |-> 5]

WrittenKvs == {<<>>, <<<<<<107>>, <<97>>>>>>, <<<<<<107>>, <<97, QUOTE>>>>>>}

WrittenRecords ==
    {[BaseRecord EXCEPT !.msg = m, !.kvs = k, !.add_loc = b, !.micro = u] :
        m \in WrittenTexts, k \in WrittenKvs, b \in BOOLEAN, u \in {0, 624447}}
    \cup
    {[BaseRecord EXCEPT !.secs = t, !.micro = u, !.level = l, !.module = mo,
                        !.add_loc = b] :
        t \in {1614086148, 1609459199}, u \in {0, 624447},
        l \in {"Error", "Warn", "Info", "Debug", "Trace"}, mo \in {<<>>, <<109>>},
        b \in BOOLEAN}

\* The line the writer emits for each record.
WrittenLine == [r \in WrittenRecords |-> LogFmtFormat(r)]

InitWritten == \E r \in WrittenRecords : InitWith(WrittenLine[r], WrittenCap)

SpecWritten == InitWritten /\ [][NextWhole]_vars

\* The key-values of a written record, as the parser holds them.
RECURSIVE DecodedKvs(_)
DecodedKvs(kvs) ==
    IF kvs = <<>> THEN <<>>
    ELSE MapInsert(DecodedKvs(Drop(kvs, 1)), kvs[1][1],
                   [tag |-> "String", neg |-> FALSE, v |-> kvs[1][2]])

\* The written record, as a record of the parser.
Decoded(r) ==
    [timestamp |-> <<[days |-> r.secs \div 86400, sod |-> r.secs % 86400,
                      nanos |-> r.micro * 1000]>>,
     level |-> r.level, msg |-> r.msg, target |-> r.target,
     module |-> IF r.module = <<>> THEN <<>> ELSE <<r.module>>,
     file |-> IF r.add_loc THEN <<[path |-> r.file, line |-> Itoa(r.line)]>> ELSE <<>>,
     key_values |-> DecodedKvs(r.kvs)]

\* C21: round trip with the writer.  For every record the writer emits,
\* the parser yields from the written line a record whose timestamp, level,
\* msg, target, module, file and key-values equal the original's.
C21_RoundTrip ==
    \A r \in WrittenRecords :
       input = WrittenLine[r] /\ reads >= 1 =>
          /\ pc # "panicked"
          /\ items # <<>>
          /\ First = RecordItem(Decoded(r))


(***************************************************************************)
(* The specification of separators: the first line is a=v1, blanks, b=v2.  *)
(***************************************************************************)
SepValues == {<<49>>, <<50>>, <<120>>, <<116, 114, 117, 101>>}

Seps == SeqsUpTo({SP, TAB}, 2) \ {<<>>}

SepLine(v1, sep, v2) == <<97, EQ>> \o v1 \o sep \o <<98, EQ>> \o v2 \o <<NL>>

InitSep ==
    \E v1 \in SepValues, v2 \in SepValues, sep \in Seps :
       InitWith(SepLine(v1, sep, v2), FieldCap)

SpecSep == InitSep /\ [][NextWhole]_vars

\* The two values of the line: up to the first blank, and after the last '='.
SepFirst ==
    SubSeq(input, 3, Least({i \in 1..Len(input) : IsBlank(input[i])}) - 1)

SepSecond ==
    SubSeq(input, Greatest({i \in 1..Len(input) : input[i] = EQ}) + 1, Len(input) - 1)

\* C22: the pairs of a line are separated by spaces or by tabs; a tab after
\* a value ends it as a space does, and the line gives the two pairs.
C22_TabSeparates ==
    reads >= 1 =>
        /\ items # <<>>
        /\ First = RecordItem([EmptyRecord EXCEPT !.key_values =
                       MapInsert(MapInsert(<<>>, <<97>>, ValueFromStr(SepFirst)),
                                 <<98>>, ValueFromStr(SepSecond))])


\* A complete line is buffered: the unconsumed window holds a new line.
HasLine == \E i \in 1..Len(Window) : Window[i] = NL

\* C23: next() issues a read only when the window cannot yield a complete
\* line and the end of the source has not been reached.  A call that finds
\* a complete line in the window takes nothing from the source and cannot
\* end in a read error, and no read fails once hit_eof is set.
C23_ReadOnlyWhenNeeded ==
    [][/\ pc = "idle" /\ HasLine => rest' = rest /\ errs' = errs
       /\ hit_eof => errs' = errs
      ]_vars


(***************************************************************************)
(* The specification of present and absent fields: the line holds any      *)
(* subset of the fields, each with a fixed value in quotes; the module, if *)
(* present, is empty or not.                                               *)
(***************************************************************************)
Choices ==
    [ts : BOOLEAN, lvl : BOOLEAN, msg : BOOLEAN, target : BOOLEAN,
     module : {"absent", "empty", "some"}, file : BOOLEAN, kv : BOOLEAN]

\* key="value" and a space, or nothing.
Field(present, key, value) ==
    IF present THEN key \o <<EQ>> \o Quoted(value) \o <<SP>> ELSE <<>>

ChoiceLine(c) ==
    Field(c.ts, KeyTs, TestStamp)
        \o Field(c.lvl, KeyLvl, <<69, 82, 82, 79, 82>>)
        \o Field(c.msg, KeyMsg, <<109>>)
        \o Field(c.target, KeyTarget, <<116>>)
        \o Field(c.module # "absent", KeyModule,
                 IF c.module = "some" THEN <<109>> ELSE <<>>)
        \o Field(c.file, KeyFile, <<102, COLON, 49>>)
        \o Field(c.kv, <<107>>, <<118>>)
        \o <<NL>>

ChoiceLines == [c \in Choices |-> ChoiceLine(c)]

InitChoice == \E c \in Choices : InitWith(ChoiceLines[c], WrittenCap)

SpecChoice == InitChoice /\ [][NextWhole]_vars

\* No field of the line is present.
NoField(c) ==
    /\ ~c.ts /\ ~c.lvl /\ ~c.msg /\ ~c.target /\ ~c.file /\ ~c.kv
    /\ c.module = "absent"

\* The record of the line: the present fields, and the defaults for the
\* absent ones.
ChoiceRecord(c) ==
    [timestamp |-> IF c.ts THEN <<[days |-> 18681, sod |-> 47748, nanos |-> 624447]>>
                   ELSE <<>>,
     level |-> IF c.lvl THEN "Error" ELSE "Info",
     msg |-> IF c.msg THEN <<109>> ELSE <<>>,
     target |-> IF c.target THEN <<116>> ELSE <<>>,
     module |-> IF c.module = "some" THEN <<<<109>>>> ELSE <<>>,
     file |-> IF c.file THEN <<[path |-> <<102>>, line |-> <<49>>]>> ELSE <<>>,
     key_values |-> IF c.kv
                    THEN <<107>> :> [tag |-> "String", neg |-> FALSE, v |-> <<118>>]
                    ELSE <<>>]

\* C24: a record holds the fields present in its line and the defaults for
\* the rest: timestamp None, level Info, msg and target empty, module and
\* file None, no key-values.  A module key with the empty value gives None
\* and one with a value gives Some(value).
C24_FieldsAndDefaults ==
    \A c \in Choices :
       input = ChoiceLines[c] /\ reads >= 1 /\ ~NoField(c) =>
          /\ items # <<>>
          /\ First = RecordItem(ChoiceRecord(c))

C24_Witness ==
    /\ reads >= 1
    /\ input = ChoiceLines[[ts |-> FALSE, lvl |-> FALSE, msg |-> TRUE, target |-> FALSE,
                            module |-> "empty", file |-> FALSE, kv |-> FALSE]]
    /\ items # <<>>
    /\ First.type = "record"
    /\ First.record.module = <<>>
    /\ First.record.msg = <<109>>
    /\ First.record.level = "Info"


(***************************************************************************)
(* The logger (src/lib.rs): Config::init installs it, the log macros call  *)
(* Logger::log, which filters on level and target and calls log(); log()   *)
(* formats into the thread-local BUF when it can borrow it and into a      *)
(* fresh buffer otherwise.  With the log-panic feature a panic runs the    *)
(* hook log_panic, which logs the panic, before it unwinds.                *)
(***************************************************************************)
REQUEST_TARGET == <<114, 101, 113, 117, 101, 115, 116>>
PANIC_TARGET == <<112, 97, 110, 105, 99>>

\* The names of the test targets_should_log.
Crate1 == <<99, 114, 97, 116, 101, 49>>
Crate1Mod1 == <<99, 114, 97, 116, 101, 49, 58, 58, 109, 111, 100, 49>>
Crate2 == <<99, 114, 97, 116, 101, 50>>
Crate2Mod2 == <<99, 114, 97, 116, 101, 50, 58, 58, 109, 111, 100, 50>>

\* str::starts_with
StartsWith(string, prefix) ==
    Len(prefix) <= Len(string) /\ SubSeq(string, 1, Len(prefix)) = prefix

\* A should_log that compares the whole target.
ShouldLogExact(targets, target) ==
    IF target = REQUEST_TARGET \/ target = PANIC_TARGET THEN TRUE
    ELSE IF targets.all THEN TRUE
    ELSE \E i \in 1..Len(targets.only) : target = targets.only[i]

\* Targets::should_log
ShouldLog(targets, target) ==
    IF target = REQUEST_TARGET \/ target = PANIC_TARGET THEN TRUE
    ELSE IF targets.all THEN TRUE
    ELSE \E i \in 1..Len(targets.only) : StartsWith(target, targets.only[i])

\* log::Level and log::LevelFilter as numbers: Off = 0, Error = 1, Warn = 2,
\* Info = 3, Debug = 4, Trace = 5.
LevelNum(level) ==
    IF level = "Error" THEN 1 ELSE IF level = "Warn" THEN 2
    ELSE IF level = "Info" THEN 3 ELSE IF level = "Debug" THEN 4 ELSE 5

\* Logger::enabled
Enabled(lg, rec) ==
    lg.filter >= LevelNum(rec.level) /\ ShouldLog(lg.targets, rec.target)

\* Targets::All and Targets::Only(list).
All == [all |-> TRUE, only |-> <<>>]
Only(list) == [all |-> FALSE, only |-> list]

\* The target sets and the targets of the test targets_should_log.
TestTargets == <<All, Only(<<Crate1>>), Only(<<Crate1Mod1>>), Only(<<Crate1, Crate2>>)>>

TestNames == {<<>>, Crate1, Crate1Mod1, Crate2, Crate2Mod2, REQUEST_TARGET, PANIC_TARGET}

\* The records of the log macros: a target, and whether formatting the
\* message panics (a Display implementation that panics).
UserRecords == [level : {"Info"}, target : TestNames, panics : BOOLEAN]

\* The record log_panic builds.
PanicRecord == [level |-> "Error", target |-> PANIC_TARGET, panics |-> FALSE]

Top == frames[Len(frames)]

Pop == SubSeq(frames, 1, Len(frames) - 1)

\* A log() that takes BUF with borrow_mut: the call panics when BUF is
\* borrowed already.
EnterLogBorrowMut(rec) ==
    /\ frames' = Append(frames, [rec |-> rec,
                                 at |-> IF borrowed THEN "failed" ELSE "format",
                                 buf |-> "BUF"])
    /\ borrowed' = TRUE

\* log(): BUF.with and the match on try_borrow_mut.  A borrow of BUF that
\* fails gives the call a fresh Buffer.
EnterLog(rec) ==
    /\ frames' = Append(frames, [rec |-> rec, at |-> "format",
                                 buf |-> IF borrowed THEN "fresh" ELSE "BUF"])
    /\ borrowed' = TRUE

\* Logger::log
LoggerLog(rec) ==
    IF Enabled(logger, rec) THEN EnterLog(rec) ELSE UNCHANGED <<frames, borrowed>>

\* Config::init / try_init with the filter and the targets of the
\* environment; it sets the panic hook.
ConfigInit ==
    /\ ~logger.installed
    /\ \E f \in {0, 1, 3}, i \in 1..Len(TestTargets) :
          logger' = [installed |-> TRUE, filter |-> f, targets |-> TestTargets[i]]
    /\ UNCHANGED <<borrowed, frames, written, calls, thread>>
    /\ UNCHANGED parservars

\* A log macro is called from the program (no call of log() is active).
LogMacro ==
    /\ logger.installed
    /\ thread = "running"
    /\ frames = <<>>
    /\ Len(calls) < MaxCalls
    /\ \E rec \in UserRecords :
          /\ calls' = Append(calls, rec)
          /\ LoggerLog(rec)
    /\ UNCHANGED <<logger, written, thread>>
    /\ UNCHANGED parservars

\* F::format in the innermost call: it returns, or formatting the message
\* panics.
Format ==
    /\ frames # <<>>
    /\ Top.at = "format"
    /\ frames' = [frames EXCEPT ![Len(frames)].at =
                     IF Top.rec.panics THEN "panic" ELSE "write"]
    /\ thread' = IF Top.rec.panics THEN "panicking" ELSE thread
    /\ UNCHANGED <<logger, borrowed, written, calls>>
    /\ UNCHANGED parservars

\* log_panic: the panic hook logs the panic through the installed logger,
\* while the call that panicked still holds its buffer.
LogPanic ==
    /\ thread = "panicking"
    /\ LoggerLog(PanicRecord)
    /\ thread' = "unwinding"
    /\ UNCHANGED <<logger, written, calls>>
    /\ UNCHANGED parservars

\* write_once to stdout or stderr, and the return of log(): the borrow of
\* BUF ends with the call that holds it.
WriteOnce ==
    /\ frames # <<>>
    /\ Top.at = "write"
    /\ written' = Append(written,
                         [stream |-> IF Top.rec.target = REQUEST_TARGET
                                     THEN "stdout" ELSE "stderr",
                          rec |-> Top.rec, buf |-> Top.buf])
    /\ frames' = Pop
    /\ borrowed' = IF Top.buf = "BUF" THEN FALSE ELSE borrowed
    /\ UNCHANGED <<logger, calls, thread>>
    /\ UNCHANGED parservars

\* The hook has returned and the panic unwinds through the call of log()
\* that raised it: its RefMut is dropped and the panic leaves the program.
Unwind ==
    /\ thread = "unwinding"
    /\ frames # <<>>
    /\ Top.at = "panic"
    /\ frames' = Pop
    /\ borrowed' = IF Top.buf = "BUF" THEN FALSE ELSE borrowed
    /\ thread' = "panicked"
    /\ UNCHANGED <<logger, written, calls>>
    /\ UNCHANGED parservars

NextLogger == ConfigInit \/ LogMacro \/ Format \/ LogPanic \/ WriteOnce \/ Unwind

InitLogger == InitWith(<<>>, InitCap)

SpecLogger == InitLogger /\ [][NextLogger]_vars


\* The expectations of the test targets_should_log: per target, whether
\* each of the four target sets logs it.
TestWanted(name) ==
    IF name = <<>> THEN <<TRUE, FALSE, FALSE, FALSE>>
    ELSE IF name = Crate1 THEN <<TRUE, TRUE, FALSE, TRUE>>
    ELSE IF name = Crate1Mod1 THEN <<TRUE, TRUE, TRUE, TRUE>>
    ELSE IF name = Crate2 THEN <<TRUE, FALSE, FALSE, TRUE>>
    ELSE IF name = Crate2Mod2 THEN <<TRUE, FALSE, FALSE, TRUE>>
    ELSE <<TRUE, TRUE, TRUE, TRUE>>

\* The rule: request and panic always; otherwise every target under All,
\* and under Only(list) the targets that start with a listed one.
WantedByRule(targets, name) ==
    \/ name \in {REQUEST_TARGET, PANIC_TARGET}
    \/ targets.all
    \/ ~targets.all /\ \E t \in {targets.only[i] : i \in 1..Len(targets.only)} :
                          StartsWith(name, t)

WantedByTest(targets, name) ==
    \E i \in 1..Len(TestTargets) : targets = TestTargets[i] /\ TestWanted(name)[i]

\* The records among cs that the rule, and the test, want logged.
RECURSIVE LoggedByRule(_, _)
LoggedByRule(targets, cs) ==
    IF cs = <<>> THEN <<>>
    ELSE (IF WantedByRule(targets, cs[1].target) THEN <<cs[1]>> ELSE <<>>)
            \o LoggedByRule(targets, Drop(cs, 1))

RECURSIVE LoggedByTest(_, _)
LoggedByTest(targets, cs) ==
    IF cs = <<>> THEN <<>>
    ELSE (IF WantedByTest(targets, cs[1].target) THEN <<cs[1]>> ELSE <<>>)
            \o LoggedByTest(targets, Drop(cs, 1))

WrittenRecs == [k \in 1..Len(written) |-> written[k].rec]

\* C25: target filtering.  A record with the target request or panic is
\* always logged; any other is logged when the target set is All, and under
\* Only(list) exactly if its target starts with a listed target.  (Records
\* the level filter lets pass, after the calls have returned.)
C25_TargetFilter ==
    /\ thread = "running"
    /\ frames = <<>>
    /\ logger.installed
    /\ logger.filter >= 3
    =>
    /\ WrittenRecs = LoggedByRule(logger.targets, calls)
    /\ WrittenRecs = LoggedByTest(logger.targets, calls)
    /\ \A k \in 1..Len(written) :
          written[k].stream = "stdout" <=> written[k].rec.target = REQUEST_TARGET

C25_Witness ==
    /\ thread = "running"
    /\ frames = <<>>
    /\ logger.filter >= 3
    /\ logger.targets = Only(<<Crate1>>)
    /\ Len(calls) = 2
    /\ calls[1].target = Crate1Mod1
    /\ calls[2].target = Crate2
    /\ WrittenRecs = <<calls[1]>>

\* C26: re-entrant logging.  When log() is entered while an outer call on
\* the thread still borrows BUF (formatting panicked and the hook logs the
\* panic), the inner call does not fail on the borrow: it formats and
\* writes its record with a fresh buffer, and then the panic propagates.
C26_ReentrantLog ==
    /\ \A i \in 1..Len(frames) : frames[i].at # "failed"
    /\ Len(frames) >= 2 => frames[1].buf = "BUF" /\ frames[2].buf = "fresh"
    /\ thread = "panicked" =>
          /\ frames = <<>>
          /\ ~borrowed
          /\ logger.filter >= 1 =>
                /\ written # <<>>
                /\ written[Len(written)] =
                      [stream |-> "stderr", rec |-> PanicRecord, buf |-> "fresh"]

C26_Witness ==
    /\ thread = "panicked"
    /\ written # <<>>
    /\ written[Len(written)].rec = PanicRecord
    /\ written[Len(written)].buf = "fresh"
    /\ calls[Len(calls)].panics
    /\ ~borrowed

(***************************************************************************)
(* The frame of a failed read.                                             *)
(***************************************************************************)
\* C27: when the read inside fill_buf fails, the buffer is cut back to the
\* length it had before it was resized (the drained length), it holds the
\* bytes of the window as they were before the call less the leading
\* blanks, hit_eof is unchanged, and nothing but consumed bytes and leading
\* blanks has left the buffer.
C27_FailedReadFrame ==
    [][errs' # errs =>
         /\ Len(buf') = Len(Drain(Self))
         /\ parsed' = 0
         /\ buf' = EatSpace(Window)
         /\ hit_eof' = hit_eof
         /\ Len(buf) - Len(buf') = parsed + LeadingBlanks(Window)
         /\ \A i \in 1..Len(buf') : buf'[i] = buf[Len(buf) - Len(buf') + i]
      ]_vars

\* C27 happens: a read has just failed on a window that began with blanks
\* behind consumed bytes; the blanks are gone and the bytes behind them are
\* what the buffer holds.
C27_Witness ==
    /\ pc = "idle"
    /\ items # <<>>
    /\ items[Len(items)].kind = "Io"
    /\ Len(items) >= 2
    /\ consumed # <<>>
    /\ IsBlank(consumed[Len(consumed)])
    /\ parsed = 0
    /\ buf # <<>>
    /\ ~hit_eof

(***************************************************************************)
(* The frame of an incomplete line.                                        *)
(***************************************************************************)
\* The read the step from the current state to the next has issued.
StepRead == [ok |-> errs' = errs, data |-> Take(rest, Len(rest) - Len(rest'))]

\* parse_line on p reports an incomplete line: it returns None on a window
\* that, leading blanks aside, is neither empty nor at a new line.
Incomplete(p) ==
    /\ ParseLine(p).res = "none"
    /\ EatSpace(Drop(p.buf, p.parsed)) # <<>>
    /\ EatSpace(Drop(p.buf, p.parsed))[1] # NL

\* The reads the source can answer the next fill_buf with.
NextReads ==
    {[ok |-> TRUE, data |-> Take(rest', n)] :
        n \in 0..Min(ReadRoom(Self'), Len(rest'))}

\* C28: when parse_line reports an incomplete line it consumes nothing of
\* it: the buffer is as fill_buf left it, parsed is at the first non-blank
\* byte of the line, no record or error is returned for the partial line,
\* before the end of the stream next() goes round to read again, and after
\* the refill the buffer starts with the bytes of the line, so that
\* parse_line tokenizes it again from its start.
C28_IncompleteFrame ==
    [][\A pF \in {FillBuf(Self, StepRead)} :
          (errs' = errs /\ CanStep /\ Incomplete(pF)) =>
             /\ buf' = pF.buf
             /\ parsed' = RemoveSpaces(pF).parsed
             /\ ~IsBlank(Window'[1])
             /\ items' = items \/ (pF.hit_eof /\ items' = Append(items, NoneItem))
             /\ ~pF.hit_eof => pc' = "loop" /\ needs_read'
             /\ \A rd \in NextReads :
                   /\ FillBuf(Self', rd).parsed = 0
                   /\ FillBuf(Self', rd).buf = Window' \o rd.data
      ]_vars

\* C28 happens: next() has gone round on a line whose key is whole and
\* whose value stops at the end of the window, with the rest of the line
\* yet to be read.
C28_Witness ==
    /\ pc = "loop"
    /\ Len(Window) >= 2
    /\ Window[1] = 97
    /\ Window[2] = EQ
    /\ rest # <<>>

(***************************************************************************)
(* The split of a quoted value.                                            *)
(***************************************************************************)
\* The position of the first '=' of inp that has an even number of quotes
\* before it, one past the end of inp when there is none.
BreakAt(inp) ==
    Least({j \in 2..Len(inp) : inp[j] = EQ /\ QuoteCount(inp, j - 1) % 2 = 0}
          \cup {Len(inp) + 1})

\* The position of the nearest quote of inp before its break.
NearestQuote(inp) == Greatest({j \in 1..(BreakAt(inp) - 1) : inp[j] = QUOTE})

\* The value between the opening quote and the nearest quote before the
\* break, and the input right after that quote.
SplitAtQuote(inp) ==
    [value |-> SubSeq(inp, 2, NearestQuote(inp) - 1),
     rest |-> Drop(inp, NearestQuote(inp))]

\* The bytes parse_value is given for the key a of the line at the start of
\* the window of p, when they start with a quote; <<>> otherwise.
QuotedInput(p) ==
    IF /\ Len(EatSpace(Drop(p.buf, p.parsed))) >= 3
       /\ Take(EatSpace(Drop(p.buf, p.parsed)), 3) = <<97, EQ, QUOTE>>
    THEN Drop(EatSpace(Drop(p.buf, p.parsed)), 2)
    ELSE <<>>

\* C29: for a value that starts with a quote, parse_quoted_value returns
\* the bytes strictly between the opening quote and the nearest quote
\* before the first '=' with an even quote count (before the end of the
\* window when there is none), and the remaining input starts right after
\* that quote.
C29_QuotedSplit ==
    [][\A inp \in {QuotedInput(FillBuf(Self, StepRead))} :
          (errs' = errs /\ CanStep /\ inp # <<>>) =>
             /\ ParseValue(inp).value = SplitAtQuote(inp).value
             /\ ParseValue(inp).rest = SplitAtQuote(inp).rest
      ]_vars

(***************************************************************************)
(* The specification of error spans: the stream is a malformed line that   *)
(* holds the pair a="body" and the pair \x80=a, whose key is not UTF-8, in *)
(* either order, then the line a=a; it is delivered by a single read.      *)
(***************************************************************************)
BadPair == <<128, EQ, 97>>

SpanLine(body, badFirst) ==
    IF badFirst
    THEN BadPair \o <<SP>> \o QuotedLine(body, FALSE)
    ELSE QuotedLine(body, FALSE) \o <<SP>> \o BadPair

InitSpan ==
    \E body \in SeqsUpTo(QuotedAlphabet, MaxBody) : \E badFirst \in BOOLEAN :
       InitWith(SpanLine(body, badFirst) \o <<NL>> \o NextLine, FieldCap)

SpecSpan == InitSpan /\ [][NextWhole]_vars

RECURSIVE TokenRest(_)

\* What the loop of parse_line leaves of inp when it tokenizes pair after
\* pair up to the end of the line: the input from the new line on.
TokenStep(inp) ==
    IF inp = <<>> \/ inp[1] = NL THEN inp
    ELSE IF ParseKey(inp).rest = <<>> THEN <<>>
    ELSE TokenRest(ParseValue(ParseKey(inp).rest).rest)

TokenRest(inp) == TokenStep(EatSpace(inp))

\* The line of the tokenizer at the start of inp, without its new line.
TokenLine(inp) == Take(inp, Len(inp) - Len(TokenRest(inp)))

\* C30: the line captured for a line error ends where the tokenizer ends
\* the line: for a malformed line that holds a quoted value with embedded
\* new lines the error carries the whole line up to the new line that ends
\* it for the tokenizer, the skip moves parsed past that line and its new
\* line, and the next call returns the record of the following line.
C30_ErrorSpan ==
    \A i \in 1..Len(items) :
        (items[i].type = "error" /\ items[i].kind # "Io") =>
            /\ items[i].line = <<TokenLine(Drop(input, starts[i]))>>
            /\ ends[i] = Min(Len(input),
                             starts[i] + Len(TokenLine(Drop(input, starts[i]))) + 1)
            /\ i < Len(items) =>
                  /\ starts[i + 1] = ends[i]
                  /\ items[i + 1] = OnePair(<<97>>, <<97>>)

(***************************************************************************)
(* The specification of failing fields: the stream is a line of one to     *)
(* MaxPairs pairs, each the pair a=a or a pair whose field fails (a level  *)
(* that is no level, a file without a line, a key that is not UTF-8), then *)
(* the line a=a; it is delivered by a single read.                         *)
(***************************************************************************)
MaxPairs == 3

GoodPair == <<97, EQ, 97>>

BadLevelPair == KeyLvl \o <<EQ, 97>>

BadFilePair == KeyFile \o <<EQ, 97>>

AbortPairs == {GoodPair, BadLevelPair, BadFilePair, BadPair}

PairSeqs == {ps \in SeqsUpTo(AbortPairs, MaxPairs) : ps # <<>>}

RECURSIVE JoinPairs(_)
JoinPairs(ps) ==
    IF Len(ps) = 1 THEN ps[1] ELSE ps[1] \o <<SP>> \o JoinPairs(Drop(ps, 1))

\* The line of each sequence of pairs.
AbortLine == [ps \in PairSeqs |-> JoinPairs(ps)]

InitAbort ==
    \E ps \in PairSeqs : InitWith(AbortLine[ps] \o <<NL>> \o NextLine, FieldCap)

SpecAbort == InitAbort /\ [][NextWhole]_vars

\* The error kind of a pair on its own, "" when its field is taken.
PairKind(pair) ==
    IF pair = BadLevelPair THEN "InvalidLevel"
    ELSE IF pair = BadFilePair THEN "InvalidFile"
    ELSE IF pair = BadPair THEN "KeyInvalidUt8"
    ELSE ""

\* The first failing pair of ps, 0 when no pair fails.
FirstFailing(ps) ==
    IF \A k \in 1..Len(ps) : PairKind(ps[k]) = "" THEN 0
    ELSE Least({k \in 1..Len(ps) : PairKind(ps[k]) # ""})

\* C31: a field failure aborts the whole line.  A line with a failing pair
\* yields one item, the error of its first failing pair in left-to-right
\* order with the whole line; no record of the pairs decoded before it is
\* returned, the pairs behind it yield nothing, and the next item is the
\* record of the following line.
C31_FieldFailureAborts ==
    \A ps \in PairSeqs :
        (input = AbortLine[ps] \o <<NL>> \o NextLine /\ FirstFailing(ps) # 0) =>
            /\ Len(items) >= 1 =>
                  items[1] = ErrorItem(PairKind(ps[FirstFailing(ps)]), <<AbortLine[ps]>>)
            /\ Len(items) >= 2 => items[2] = OnePair(<<97>>, <<97>>)
            /\ Len(items) >= 3 => items[3] = NoneItem
            /\ pc # "panicked"

\* C31 happens: the line held a decoded pair, then a failing pair, then a
\* pair that fails in another way, and next() has returned the error of
\* the line and the record of the following line.
C31_Witness ==
    /\ input = AbortLine[<<GoodPair, BadFilePair, BadLevelPair>>] \o <<NL>> \o NextLine
    /\ Len(items) = 2
    /\ items[1].kind = "InvalidFile"
    /\ items[2].type = "record"

(***************************************************************************)
(* The specification of blank lines: the stream is the line a=a, then no   *)
(* line or one line of at most MaxGap spaces and tabs, then the line b=b;  *)
(* it is delivered in reads of any size.                                   *)
(***************************************************************************)
MaxGap == 2

Gaps == {<<>>} \cup {g \o <<NL>> : g \in SeqsUpTo({SP, TAB}, MaxGap)}

GapStream(g) == <<97, EQ, 97, NL>> \o g \o <<98, EQ, 98, NL>>

InitGap == \E g \in Gaps : InitWith(GapStream(g), LinesCap)

SpecGap == InitGap /\ [][Next]_vars

\* C32: lines of spaces and tabs only are transparent.  With or without
\* such a line between the lines a=a and b=b, whatever the sizes of the
\* reads and whether or not the end of the source was seen before the
\* blank line is parsed, the items returned up to the first end-of-stream
\* are the record of a=a and the record of b=b.
C32_BlankLineTransparent ==
    (Finished /\ errs = 0)
        => Yielded = <<OnePair(<<97>>, <<97>>), OnePair(<<98>>, <<98>>)>>

(***************************************************************************)
(* The specification of termination: the source delivers its bytes in      *)
(* reads of any size, never fails, and returns 0 once it is exhausted; the *)
(* caller keeps calling next().                                            *)
(***************************************************************************)
NextLive == NextOnData \/ NextOnEof

SpecLive == Init /\ [][NextLive]_vars

\* The stream offset at which the call of item i began.
CallStart(i) == IF i = 1 THEN 0 ELSE ends[i - 1]

\* What is left to do: the bytes to read and to parse, the end of the
\* source to see, the ends of the stream to return.
Measure ==
    3 * Len(rest) + 2 * Len(Window) + (IF hit_eof THEN 0 ELSE 1)
        + 2 * (MaxNones - Nones)

\* C33: termination.  On a source that delivers finitely many bytes and
\* then 0 on every read, every iteration of next() brings the end nearer
\* (it reads bytes, sees the end of the source, consumes bytes or returns
\* end-of-stream), the loop goes round only while the end of the source
\* was not seen, every returned record or line error has consumed at least
\* one byte, the calls stop only after end-of-stream was returned, and it
\* is returned after at most as many items as the input has bytes.
C33_Termination ==
    [][/\ Measure' < Measure
       /\ pc' = "loop" => ~hit_eof'
       /\ \A i \in 1..Len(items') :
             (items'[i].type = "record"
                 \/ (items'[i].type = "error" /\ items'[i].kind # "Io"))
                => ends'[i] > (IF i = 1 THEN 0 ELSE ends'[i - 1])
       /\ pc' = "panicked" => FALSE
       /\ Finished' => Len(Yielded') <= Len(input)
      ]_vars

(***************************************************************************)
(* The unit of the fraction of a timestamp.                                *)
(***************************************************************************)
\* The six digits behind the '.' of the timestamp of the first line.
Fraction == SubSeq(FieldValue(2), 21, 26)

\* C34: the six digits of the fraction of ts are microseconds, as the
\* writer emits them: the timestamp of the record has a sub-second part of
\* that many microseconds, 1000 nanoseconds each.
C34_Microseconds ==
    (/\ Layout(FieldValue(2))
     /\ items # <<>>
     /\ items[1].type = "record")
        => /\ Len(items[1].record.timestamp) = 1
           /\ items[1].record.timestamp[1].nanos = 1000 * DigitsVal(Fraction)

(***************************************************************************)
(* The specification of keys: the first line is a text of at most MaxKey   *)
(* bytes (the letter k, quotes, spaces, tabs), then '=', blanks and the    *)
(* value 1; then the line a=a.  It is delivered by a single read.          *)
(***************************************************************************)
MaxKey == 3

KeyTexts == SeqsUpTo({107, QUOTE, SP, TAB}, MaxKey)

KeyGaps == {<<>>, <<SP>>, <<TAB, SP>>}

KeyLine == [t \in KeyTexts, g \in KeyGaps |-> t \o <<EQ>> \o g \o <<49>>]

InitKey ==
    \E t \in KeyTexts, g \in KeyGaps :
       InitWith(KeyLine[t, g] \o <<NL>> \o NextLine, FieldCap)

SpecKey == InitKey /\ [][NextWhole]_vars

\* The key of a text: the text without the blanks around it and, when that
\* begins and ends with a quote, without the two quotes and the blanks
\* inside them.
TrimmedKey(t) ==
    IF /\ Len(EatSpaceBoth(t)) >= 2
       /\ EatSpaceBoth(t)[1] = QUOTE
       /\ EatSpaceBoth(t)[Len(EatSpaceBoth(t))] = QUOTE
    THEN EatSpaceBoth(SubSeq(EatSpaceBoth(t), 2, Len(EatSpaceBoth(t)) - 1))
    ELSE EatSpaceBoth(t)

\* C35: whatever text precedes the '=' becomes the key after trimming, and
\* the blanks between the '=' and the value are skipped: the first item is
\* the record that holds the value 1 under the trimmed key, and next()
\* does not panic.
C35_KeyTrimming ==
    \A t \in KeyTexts, g \in KeyGaps :
        input = KeyLine[t, g] \o <<NL>> \o NextLine =>
            /\ pc # "panicked"
            /\ items # <<>> => items[1] = OnePair(TrimmedKey(t), <<49>>)

(***************************************************************************)
(* The end of the stream is final.                                         *)
(***************************************************************************)
\* C36: once next() has returned end-of-stream, every later call returns
\* end-of-stream as long as the source returns 0 bytes: no record and no
\* line error is returned behind an end-of-stream (the error of a read
\* that fails is not an answer of 0 bytes).
C36_EndIsFinal ==
    \A i, j \in 1..Len(items) :
        (i < j /\ items[i].type = "none")
            => (items[j].type = "none" \/ items[j].kind = "Io")

(***************************************************************************)
(* The bounds of the buffer.                                               *)
(***************************************************************************)
\* C37: in every state reached by calls of next(), 0 <= parsed <= buf.len()
\* <= buf.capacity(): the end-of-line advance of parse_line, the skip of
\* an error's line and its new line, and remove_spaces leave parsed within
\* the buffer, and a refill leaves it at 0 or moves it over bytes of the
\* refilled buffer only.
C37_ParsedInBounds ==
    /\ 0 <= parsed
    /\ parsed <= Len(buf)
    /\ Len(buf) <= cap
    /\ RemoveSpaces(Self).parsed <= Len(buf)
    /\ FillBuf(Self, [ok |-> TRUE, data |-> <<>>]).parsed = 0

\* C37 happens: next() has returned a line error and skipped the line and
\* its new line, the last byte of the buffer: parsed is the buffer length.
C37_Witness ==
    /\ pc = "idle"
    /\ items # <<>>
    /\ items[Len(items)].type = "error"
    /\ items[Len(items)].kind # "Io"
    /\ parsed = Len(buf)
    /\ parsed >= 2
    /\ buf[parsed] = NL

(***************************************************************************)
(* The end-of-source flag.                                                 *)
(***************************************************************************)
\* C38: hit_eof becomes true only by a read that was handed a non-empty
\* region and returned 0 bytes; the capacity is doubled before the read
\* when the buffer is full, so that the region is never empty; and once
\* true hit_eof is never reset.
C38_EofOnlyOnEmptyRead ==
    [][/\ ReadRoom(Self) >= 1
       /\ hit_eof => hit_eof'
       /\ (~hit_eof /\ hit_eof') =>
             /\ StepRead = [ok |-> TRUE, data |-> <<>>]
             /\ rest = <<>>
             /\ Len(buf') < cap'
       /\ (Len(Drain(Self)) = cap) => cap' = cap + cap
      ]_vars

\* C38 happens: the buffer was full and has grown, the read into the new
\* room has returned 0 bytes, and hit_eof is set with the bytes of the full
\* buffer still in the window.
C38_Witness ==
    /\ hit_eof
    /\ cap = InitCap + InitCap
    /\ Len(Window) = InitCap
    /\ reads = 1

(***************************************************************************)
(* The specification of what follows a quoted value: the stream is the     *)
(* pair a="body", the body without quotes, then a bare key, a quoted key,  *)
(* a new line and another line, or the end of the input; it is delivered   *)
(* by a single read.                                                       *)
(***************************************************************************)
PlainBodies == SeqsUpTo({97, SP, NL}, MaxValue)

BarePair == <<98, EQ, 120>>

QuotedKeyPair == <<QUOTE, 98, QUOTE, EQ, 120>>

Followers ==
    {<<>>, <<NL>>,
     <<SP>> \o BarePair \o <<NL>>, <<SP>> \o QuotedKeyPair \o <<NL>>,
     <<NL>> \o BarePair \o <<NL>>, <<NL>> \o QuotedKeyPair \o <<NL>>}

FollowedStream == [b \in PlainBodies, f \in Followers |-> QuotedLine(b, FALSE) \o f]

InitFollowed ==
    \E b \in PlainBodies, f \in Followers : InitWith(FollowedStream[b, f], FieldCap)

SpecFollowed == InitFollowed /\ [][NextWhole]_vars

\* The record rec with the value of its key a replaced by the string b.
WithBody(item, b) ==
    [item EXCEPT !.record.key_values =
        MapInsert(item.record.key_values, <<97>>, [tag |-> "String", neg |-> FALSE, v |-> b])]

\* The items of the stream a=v followed by f, with the body b for the
\* value v of the first record.
AsNaked(b, f) ==
    [k \in 1..Len(RunWhole(<<97, EQ, 118>> \o f, FieldCap).items) |->
        IF k = 1 THEN WithBody(RunWhole(<<97, EQ, 118>> \o f, FieldCap).items[1], b)
        ELSE RunWhole(<<97, EQ, 118>> \o f, FieldCap).items[k]]

\* The expected items of each stream.
FollowedItems == [b \in PlainBodies, f \in Followers |-> AsNaked(b, f)]

\* C39: the content of a quoted value without inner quotes does not depend
\* on what follows its closing quote: it is the bytes between its two
\* quotes, and the bytes behind the closing quote are tokenized as if the
\* value had been naked, so the items are those of the stream with a naked
\* value, with the body as the value of a.
C39_QuotedThenAnything ==
    \A b \in PlainBodies, f \in Followers :
        (input = FollowedStream[b, f] /\ Finished) => Yielded = FollowedItems[b, f]

====
